---- MODULE Spec2Model ----
(***************************************************************************)
(* Wallet analysis and staking-recommendation engine                       *)
(* (WalletAnalyzer, InternalTokenBalanceProvider, Cache).                  *)
(*                                                                         *)
(* Amounts are exact decimals.  An amount is an integer number of ticks,   *)
(* one tick being 0.00001 of a token unit, or a reduced fraction [n, d] of *)
(* ticks where the code multiplies or divides.  parseFloat/formatUnits are *)
(* exact on these decimals; IEEE-754 rounding of doubles is not modelled.  *)
(* Percentages (APR) are kept in tenths of a percent.                      *)
(***************************************************************************)
EXTENDS Integers, Sequences, FiniteSets, TLC

TICK == 10 * 10000

(***************************************************************************)
(* Bounds of the model.                                                    *)
(***************************************************************************)
\* largest number of funded assets in one on-chain world
MaxDeposits == 2
\* largest number of holdings in a directly drawn holdings list
MaxHoldings == 3
\* number of analyze calls in one behaviour of the caching specification
MaxCalls == 2
\* the clock of the caching specification stops here (minutes)
MaxTime == 15

(***************************************************************************)
(* Exact arithmetic on non-negative fractions.                             *)
(***************************************************************************)
RECURSIVE GCD(_, _)
GCD(a, b) == IF b = 0 THEN a ELSE GCD(b, a % b)

Rat(n, d) == LET g == GCD(n, d) IN [n |-> n \div g, d |-> d \div g]

Whole(n) == [n |-> n, d |-> 1]

RatAdd(a, b) ==
    LET l == (a.d \div GCD(a.d, b.d)) * b.d
    IN  Rat(a.n * (l \div a.d) + b.n * (l \div b.d), l)

RatMul(a, b) ==
    LET g1 == GCD(a.n, b.d)
        g2 == GCD(b.n, a.d)
    IN  IF a.n = 0 \/ b.n = 0 THEN Whole(0)
        ELSE [n |-> (a.n \div g1) * (b.n \div g2), d |-> (a.d \div g2) * (b.d \div g1)]

RatLt(a, b) == a.n * b.d < b.n * a.d
RatLe(a, b) == a.n * b.d <= b.n * a.d
RatMin(a, b) == IF RatLt(b, a) THEN b ELSE a

\* Number.prototype.toFixed(6) of an amount in ticks: the nearest multiple
\* of 0.000001 (a tenth of a tick), the larger one on a tie
ToFixed6(r) == Rat((20 * r.n + r.d) \div (2 * r.d), 10)

(***************************************************************************)
(* Chain registry (CHAIN_CONFIG), in declaration order.                    *)
(***************************************************************************)
ChainOrder ==
    << "mainnet", "base", "arbitrum", "polygon",
       "sepolia", "holesky", "baseSepolia", "arbitrumSepolia",
       "polygonAmoy", "optimismSepolia" >>

Range(s) == {s[i] : i \in DOMAIN s}

CHAIN_CONFIG ==
    [c \in Range(ChainOrder) |->
        [isTestnet |-> c \in {"sepolia", "holesky", "baseSepolia",
                              "arbitrumSepolia", "polygonAmoy", "optimismSepolia"}]]

isTestnetChain(chainName) ==
    IF chainName \in DOMAIN CHAIN_CONFIG THEN CHAIN_CONFIG[chainName].isTestnet ELSE FALSE

getTestnetChains == SelectSeq(ChainOrder, LAMBDA c : CHAIN_CONFIG[c].isTestnet)

getMainnetChains == SelectSeq(ChainOrder, LAMBDA c : ~CHAIN_CONFIG[c].isTestnet)

(***************************************************************************)
(* Staking options and token catalogs.  apr is in tenths of a percent,     *)
(* minAmount in ticks, lockPeriod in days (-1: none given).                *)
(***************************************************************************)
Opt(protocol, type, apr, minAmount, riskLevel, lockPeriod, chainName) ==
    [protocol |-> protocol, type |-> type, expectedApr |-> apr, minAmount |-> minAmount,
     riskLevel |-> riskLevel, lockPeriod |-> lockPeriod, chainName |-> chainName]

Tok(symbol, isStakeable, isTestnet, stakingOptions) ==
    [symbol |-> symbol, isStakeable |-> isStakeable, isTestnet |-> isTestnet,
     stakingOptions |-> stakingOptions]

TESTNET_TOKEN_DATABASE(chainName) ==
    CASE chainName = "sepolia" ->
           << Tok("UNI", TRUE, TRUE,
                  << Opt("Testnet Uniswap", "YIELD_FARMING", 80, TICK, "MEDIUM", -1, "sepolia") >>),
              Tok("LINK", TRUE, TRUE,
                  << Opt("Testnet Aave", "LIQUID", 50, TICK, "LOW", -1, "sepolia"),
                     Opt("Testnet Compound", "LIQUID", 42, TICK \div 2, "LOW", -1, "sepolia") >>),
              Tok("USDC", TRUE, TRUE,
                  << Opt("Testnet Compound", "LIQUID", 35, TICK, "LOW", -1, "sepolia"),
                     Opt("Testnet Aave", "LIQUID", 40, TICK, "LOW", -1, "sepolia") >>),
              Tok("WETH", TRUE, TRUE,
                  << Opt("Testnet Lido", "LIQUID", 25, TICK \div 1000, "LOW", -1, "sepolia"),
                     Opt("Testnet Uniswap", "YIELD_FARMING", 60, TICK \div 100, "MEDIUM", -1, "sepolia") >>),
              Tok("DAI", TRUE, TRUE,
                  << Opt("Testnet MakerDAO", "LIQUID", 40, TICK, "LOW", -1, "sepolia"),
                     Opt("Testnet Aave", "LIQUID", 38, TICK, "LOW", -1, "sepolia") >>) >>
      [] chainName = "holesky" ->
           << Tok("WETH", TRUE, TRUE,
                  << Opt("Holesky Lido", "LIQUID", 28, TICK \div 1000, "LOW", -1, "holesky") >>) >>
      [] chainName = "baseSepolia" ->
           << Tok("USDC", TRUE, TRUE,
                  << Opt("Base Sepolia Moonwell", "LIQUID", 32, TICK, "MEDIUM", -1, "baseSepolia") >>) >>
      [] chainName = "arbitrumSepolia" ->
           << Tok("USDC", TRUE, TRUE,
                  << Opt("Arbitrum Sepolia Radiant", "LIQUID", 38, TICK, "MEDIUM", -1, "arbitrumSepolia") >>) >>
      [] chainName = "polygonAmoy" ->
           << Tok("WMATIC", TRUE, TRUE,
                  << Opt("Amoy Staking", "LIQUID", 60, TICK, "MEDIUM", -1, "polygonAmoy") >>) >>
      [] chainName = "optimismSepolia" ->
           << Tok("USDC", TRUE, TRUE,
                  << Opt("Optimism Sepolia Aave", "LIQUID", 35, TICK, "LOW", -1, "optimismSepolia") >>) >>
      [] OTHER -> << >>

TOKEN_DATABASE(chainName) ==
    CASE chainName = "mainnet" ->
           << Tok("USDC", TRUE, FALSE,
                  << Opt("Aave", "LIQUID", 45, 100 * TICK, "LOW", -1, "mainnet"),
                     Opt("Compound", "LIQUID", 38, 50 * TICK, "LOW", -1, "mainnet") >>),
              Tok("USDT", TRUE, FALSE,
                  << Opt("Aave", "LIQUID", 42, 100 * TICK, "LOW", -1, "mainnet") >>),
              Tok("DAI", TRUE, FALSE,
                  << Opt("MakerDAO DSR", "LIQUID", 50, TICK, "LOW", -1, "mainnet"),
                     Opt("Aave", "LIQUID", 43, 50 * TICK, "LOW", -1, "mainnet") >>),
              Tok("UNI", FALSE, FALSE, << >>),
              Tok("stETH", FALSE, FALSE, << >>) >>
      [] chainName = "base" ->
           << Tok("USDC", TRUE, FALSE,
                  << Opt("Moonwell", "LIQUID", 35, 50 * TICK, "MEDIUM", -1, "base") >>),
              Tok("WETH", TRUE, FALSE,
                  << Opt("Moonwell", "LIQUID", 28, TICK \div 10, "MEDIUM", -1, "base") >>) >>
      [] chainName = "arbitrum" ->
           << Tok("USDC", TRUE, FALSE,
                  << Opt("Radiant", "LIQUID", 40, 50 * TICK, "MEDIUM", -1, "arbitrum") >>),
              Tok("WETH", TRUE, FALSE,
                  << Opt("Radiant", "LIQUID", 25, TICK \div 10, "MEDIUM", -1, "arbitrum") >>) >>
      [] OTHER -> << >>

TESTNET_ETH_STAKING_OPTIONS ==
    << Opt("Testnet Lido", "LIQUID", 25, TICK \div 1000, "LOW", -1, "sepolia"),
       Opt("Testnet Rocket Pool", "LIQUID", 23, TICK \div 1000, "LOW", -1, "sepolia"),
       Opt("Sepolia Beacon Chain", "LOCKED", 30, TICK \div 10, "MEDIUM", 1, "sepolia"),
       Opt("Testnet Frax", "LIQUID", 28, TICK \div 1000, "MEDIUM", -1, "sepolia") >>

ETH_STAKING_OPTIONS ==
    << Opt("Lido", "LIQUID", 32, TICK \div 100, "LOW", -1, "mainnet"),
       Opt("Rocket Pool", "LIQUID", 31, TICK \div 100, "LOW", -1, "mainnet"),
       Opt("Coinbase Wrapped Staked ETH", "LIQUID", 30, TICK \div 1000, "LOW", -1, "mainnet"),
       Opt("EigenLayer", "RESTAKING", 45, 32 * TICK, "HIGH", 21, "mainnet") >>

(***************************************************************************)
(* Sequence helpers.                                                       *)
(***************************************************************************)
Reverse(s) == [i \in 1..Len(s) |-> s[Len(s) + 1 - i]]

\* the element of a one-element set.  The({e : x \in {v}}) is e with x
\* standing for the value of v, which is computed once
The(S) == CHOOSE x \in S : TRUE

\* the concatenation of a sequence of sequences
Flatten(ss) ==
    LET f[i \in 0..Len(ss)] == IF i = 0 THEN << >> ELSE f[i - 1] \o ss[i]
    IN  f[Len(ss)]

\* the sum of a sequence of numbers
Sum(xs) ==
    LET f[i \in 0..Len(xs)] == IF i = 0 THEN 0 ELSE f[i - 1] + xs[i]
    IN  f[Len(xs)]

Min(a, b) == IF a < b THEN a ELSE b
Max(a, b) == IF a > b THEN a ELSE b

\* a descending sort that puts a later element before its equals
SortDescTiesReversed(s, keys) ==
    LET f[i \in 0..Len(s)] ==
            IF i = 0 THEN << >>
            ELSE The({LET n == Len(SelectSeq(sorted, LAMBDA j : keys[j] > keys[i]))
                      IN  SubSeq(sorted, 1, n) \o << i >> \o SubSeq(sorted, n + 1, i - 1) :
                      sorted \in {f[i - 1]}})
    IN  The({[j \in 1..Len(s) |-> s[order[j]]] : order \in {f[Len(s)]}})

\* Array.prototype.sort with comparator key(b) - key(a), keys[i] being the
\* key of s[i]: descending by key, equal keys keep their order (the sort is
\* stable)
SortDesc(s, keys) ==
    LET f[i \in 0..Len(s)] ==
            IF i = 0 THEN << >>
            ELSE The({LET n == Len(SelectSeq(sorted, LAMBDA j : keys[j] >= keys[i]))
                      IN  SubSeq(sorted, 1, n) \o << i >> \o SubSeq(sorted, n + 1, i - 1) :
                      sorted \in {f[i - 1]}})
    IN  The({[j \in 1..Len(s) |-> s[order[j]]] : order \in {f[Len(s)]}})

(***************************************************************************)
(* Cache<T>: key -> {data, timestamp}; entries older than ttl are deleted  *)
(* by the get that finds them.  A cache is a function on its keys.         *)
(***************************************************************************)
EmptyCache == [k \in {} |-> 0]

\* a get that treats an entry as expired once its age reaches the ttl
CacheGetExpiringAtTTL(cache, ttl, key, t) ==
    IF key \notin DOMAIN cache
    THEN [hit |-> FALSE, data |-> << >>, cache |-> cache]
    ELSE IF t - cache[key].timestamp >= ttl
         THEN [hit |-> FALSE, data |-> << >>,
               cache |-> [k \in DOMAIN cache \ {key} |-> cache[k]]]
         ELSE [hit |-> TRUE, data |-> cache[key].data, cache |-> cache]

\* Cache.get: [hit, data, cache], cache being the map after the call
CacheGet(cache, ttl, key, t) ==
    IF key \notin DOMAIN cache
    THEN [hit |-> FALSE, data |-> << >>, cache |-> cache]
    ELSE IF t - cache[key].timestamp > ttl
         THEN [hit |-> FALSE, data |-> << >>,
               cache |-> [k \in DOMAIN cache \ {key} |-> cache[k]]]
         ELSE [hit |-> TRUE, data |-> cache[key].data, cache |-> cache]

\* a set that keeps an entry the key already has
CacheSetIfAbsent(cache, key, data, t) ==
    [k \in DOMAIN cache \cup {key} |->
        IF k \in DOMAIN cache THEN cache[k] ELSE [data |-> data, timestamp |-> t]]

\* Cache.set
CacheSet(cache, key, data, t) ==
    [k \in DOMAIN cache \cup {key} |->
        IF k = key THEN [data |-> data, timestamp |-> t] ELSE cache[k]]

\* new Cache(10 * 60 * 1000) and new Cache(5 * 60 * 1000), in minutes
AnalysisTTL == 10
BalanceTTL == 5

\* a key that leaves the mode out
CacheKeyByAddressOnly(address, testnetOnly) == << address, "all" >>

\* `${address}_analysis_${...}` and `${address}_token_balances_${...}`
CacheKey(address, testnetOnly) == << address, IF testnetOnly THEN "testnet" ELSE "all" >>

(***************************************************************************)
(* The chain query service.  A world gives the balances an address holds:  *)
(* a function on pairs <<chain, asset>> ("native" or a token symbol), zero *)
(* elsewhere.  A status map says how each chain's RPC behaves during one   *)
(* aggregation attempt: "up" answers, "down" fails every query, "hang"     *)
(* answers no query before the attempt's timeout.                          *)
(***************************************************************************)
Bal(w, chainName, asset) ==
    IF << chainName, asset >> \in DOMAIN w THEN w[<< chainName, asset >>] ELSE 0

\* minThreshold of getTokenBalancesForChain: 0.00001 on testnets, 0.001 otherwise
DustThreshold(isTestnet) == IF isTestnet THEN TICK \div 100000 ELSE TICK \div 1000

\* InternalTokenBalanceProvider.getTokenBalancesForChain on a chain that
\* does not hang; rev: the token reads complete in reverse catalog order
getTokenBalancesForChain(w, status, chainName, rev) ==
    LET isTestnet == isTestnetChain(chainName)
        nativeBalance == IF status = "up" THEN Bal(w, chainName, "native") ELSE 0
        tokens == IF isTestnet THEN TESTNET_TOKEN_DATABASE(chainName)
                  ELSE TOKEN_DATABASE(chainName)
        done == IF rev THEN Reverse(tokens) ELSE tokens
        read == [i \in 1..Len(done) |->
                    [symbol |-> done[i].symbol,
                     balance |-> Bal(w, chainName, done[i].symbol),
                     chainName |-> chainName,
                     isStakeable |-> done[i].isStakeable,
                     stakingOptions |-> done[i].stakingOptions,
                     isTestnet |-> done[i].isTestnet \/ isTestnet]]
    IN  [chainName |-> chainName,
         nativeBalance |-> nativeBalance,
         tokenHoldings |->
            SelectSeq(read, LAMBDA h :
                /\ status = "up"
                /\ h.balance > 0
                /\ h.balance > DustThreshold(isTestnet)),
         isTestnet |-> isTestnet]

\* the chains one aggregation queries
chainsToCheck(testnetOnly, supportedChains) ==
    IF testnetOnly THEN getTestnetChains ELSE supportedChains

\* the filter of getTokenBalances on a chain's data
IncludeChain(chainData, testnetOnly) ==
    \/ Len(chainData.tokenHoldings) > 0
    \/ chainData.nativeBalance > 0
    \/ testnetOnly

\* InternalTokenBalanceProvider.getTokenBalances, one attempt at time t:
\* [outcome, data, cache, queried].  outcome "pending": some chain hangs, the
\* promise is not settled and nothing is written
getTokenBalances(cache, t, w, st, address, testnetOnly, supportedChains, rev) ==
    LET key == CacheKey(address, testnetOnly)
        chains == chainsToCheck(testnetOnly, supportedChains)
        done == IF rev THEN Reverse(chains) ELSE chains
        all == [i \in 1..Len(done) |-> getTokenBalancesForChain(w, st[done[i]], done[i], rev)]
    IN  The({IF got.hit
             THEN [outcome |-> "ok", data |-> got.data, cache |-> got.cache, queried |-> {}]
             ELSE IF \E i \in 1..Len(chains) : st[chains[i]] = "hang"
             THEN [outcome |-> "pending", data |-> << >>, cache |-> got.cache,
                   queried |-> Range(chains)]
             ELSE The({[outcome |-> "ok", data |-> tokenBalances,
                        cache |-> CacheSet(got.cache, key, tokenBalances, t),
                        queried |-> Range(chains)] :
                       tokenBalances \in
                           {SelectSeq(all, LAMBDA cd : IncludeChain(cd, testnetOnly))}}) :
             got \in {CacheGet(cache, BalanceTTL, key, t)}})

\* maxRetries of getTokenBalancesWithRetry and initWalletProviderWithRetry
MaxRetries == 3

\* WalletAnalyzer.getTokenBalancesWithRetry from attempt `attempt` on; sts[k]
\* is the status map during attempt k.  An attempt that is still pending
\* after 60 s is abandoned (a minute passes) and the next one starts:
\* [outcome, data, cache, queried, attempts, t]
RECURSIVE getTokenBalancesWithRetry(_, _, _, _, _, _, _, _, _)
getTokenBalancesWithRetry(cache, t, w, sts, address, testnetOnly, supportedChains, rev, attempt) ==
    IF attempt > MaxRetries
    THEN [outcome |-> "error", data |-> << >>, cache |-> cache, queried |-> {},
          attempts |-> MaxRetries, t |-> t]
    ELSE The({IF r.outcome = "ok"
              THEN [outcome |-> "ok", data |-> r.data, cache |-> r.cache,
                    queried |-> r.queried, attempts |-> attempt, t |-> t]
              ELSE The({[rest EXCEPT !.queried = r.queried \cup rest.queried] :
                        rest \in {getTokenBalancesWithRetry(r.cache, t + 1, w, sts, address,
                                      testnetOnly, supportedChains, rev, attempt + 1)}}) :
              r \in {getTokenBalances(cache, t, w, sts[attempt], address, testnetOnly,
                                      supportedChains, rev)}})

(***************************************************************************)
(* Portfolio analyzer and risk profiler (pure functions of the snapshot).  *)
(***************************************************************************)
\* nativeBalances: the Record built from the snapshot, as the sequence of
\* its entries in insertion order
NativeBalances(tokenBalances) ==
    [i \in 1..Len(tokenBalances) |->
        [chainName |-> tokenBalances[i].chainName,
         balance |-> tokenBalances[i].nativeBalance]]

\* faulty variant: the shares are summed without being squared
ConcentrationRiskUnsquared(tokenHoldings) ==
    LET totalValue == Sum([i \in DOMAIN tokenHoldings |-> tokenHoldings[i].balance])
        f[i \in 0..Len(tokenHoldings)] ==
            IF i = 0 THEN Whole(0)
            ELSE RatAdd(f[i - 1], Rat(tokenHoldings[i].balance, totalValue))
    IN  f[Len(tokenHoldings)]

\* sum over holdings of (balance / totalValue)^2; the empty reduce gives 0
ConcentrationRisk(tokenHoldings) ==
    LET totalValue == Sum([i \in DOMAIN tokenHoldings |-> tokenHoldings[i].balance])
        f[i \in 0..Len(tokenHoldings)] ==
            IF i = 0 THEN Whole(0)
            ELSE LET share == Rat(tokenHoldings[i].balance, totalValue)
                 IN  RatAdd(f[i - 1], RatMul(share, share))
    IN  f[Len(tokenHoldings)]

analyzeTokenHoldings(tokenHoldings) ==
    LET concentrationRisk == ConcentrationRisk(tokenHoldings)
    IN  [totalTokens |-> Len(tokenHoldings),
         majorHoldings |->
            LET sorted == SortDesc(tokenHoldings,
                                  [i \in DOMAIN tokenHoldings |-> tokenHoldings[i].balance])
            IN  SubSeq(sorted, 1, Min(5, Len(sorted))),
         stablecoins |-> SelectSeq(tokenHoldings, LAMBDA h :
                            h.symbol \in {"USDC", "USDT", "DAI", "BUSD", "FRAX"}),
         defiTokens |-> SelectSeq(tokenHoldings, LAMBDA h :
                            h.symbol \in {"UNI", "SUSHI", "AAVE", "COMP", "CRV", "YFI", "stETH"}),
         governanceTokens |-> SelectSeq(tokenHoldings, LAMBDA h :
                            h.symbol \in {"UNI", "COMP", "AAVE", "YFI", "MKR"}),
         stakeableAssets |-> SelectSeq(tokenHoldings, LAMBDA h : h.isStakeable),
         concentrationRisk |-> concentrationRisk,
         diversificationLevel |->
            IF RatLt(Rat(1, 2), concentrationRisk) THEN "LOW"
            ELSE IF RatLt(Rat(1, 4), concentrationRisk) THEN "MEDIUM"
            ELSE "HIGH"]

calculateDiversificationScore(tokenHoldings, nativeBalances) ==
    LET totalAssets == Len(tokenHoldings) + Len(nativeBalances)
        chainCount == Len(nativeBalances)
        tokenTypes == {IF tokenHoldings[i].symbol \in {"USDC", "USDT", "DAI"} THEN "stablecoin"
                       ELSE IF tokenHoldings[i].symbol \in {"UNI", "SUSHI", "AAVE"} THEN "defi"
                       ELSE "other" : i \in DOMAIN tokenHoldings}
    IN  Min(Min(totalAssets * 5, 50) + Min(chainCount * 10, 30) + Cardinality(tokenTypes) * 5,
            100)

\* faulty variant: a score on a threshold stays in the lower tier
mapRiskScoreToToleranceInclusive(score) ==
    IF score <= 25 THEN "CONSERVATIVE"
    ELSE IF score <= 50 THEN "MODERATE"
    ELSE IF score <= 75 THEN "AGGRESSIVE"
    ELSE "DEGENERATE"

mapRiskScoreToTolerance(score) ==
    IF score < 25 THEN "CONSERVATIVE"
    ELSE IF score < 50 THEN "MODERATE"
    ELSE IF score < 75 THEN "AGGRESSIVE"
    ELSE "DEGENERATE"

\* the ratio as a fraction
getMaxPositionRatio(riskScore) ==
    IF riskScore < 25 THEN Rat(1, 10)
    ELSE IF riskScore < 50 THEN Rat(2, 10)
    ELSE IF riskScore < 75 THEN Rat(4, 10)
    ELSE Rat(6, 10)

calculateLockPeriodTolerance(riskScore) ==
    IF riskScore < 25 THEN 7
    ELSE IF riskScore < 50 THEN 30
    ELSE IF riskScore < 75 THEN 90
    ELSE 365

calculateLiquidityRisk(tokenHoldings) ==
    LET liquidTokens == Len(SelectSeq(tokenHoldings, LAMBDA h :
                            h.symbol \in {"USDC", "USDT", "DAI", "WETH", "UNI"}))
        totalTokens == Len(tokenHoldings)
    IN  IF totalTokens > 0 THEN Rat(totalTokens - liquidTokens, totalTokens) ELSE Whole(0)

\* faulty variant: the stablecoin share is not scored
RawRiskScoreNoStablecoinTerm(nativeBalance, tokenHoldings, tokenAnalysis) ==
    LET size == nativeBalance + Len(tokenHoldings) * TICK
    IN  50
        + (IF size > 100 * TICK THEN 15
           ELSE IF size > 10 * TICK THEN 10
           ELSE IF size < TICK THEN -15
           ELSE 0)
        + Min(Len(tokenHoldings) * 2, 20)
        + (IF RatLt(Rat(1, 2), tokenAnalysis.concentrationRisk) THEN 15 ELSE 0)

\* the additive score before it is clamped
RawRiskScoreFromLowBase(nativeBalance, tokenHoldings, tokenAnalysis) ==
    LET size == nativeBalance + Len(tokenHoldings) * TICK
        nStable == Len(tokenAnalysis.stablecoins)
        denom == Max(Len(tokenHoldings), 1)
    IN  20
        + (IF size > 100 * TICK THEN 15
           ELSE IF size > 10 * TICK THEN 10
           ELSE IF size < TICK THEN -15
           ELSE 0)
        + Min(Len(tokenHoldings) * 2, 20)
        + (IF 2 * nStable > denom THEN -10
           ELSE IF 10 * nStable < denom THEN 10
           ELSE 0)
        + (IF RatLt(Rat(1, 2), tokenAnalysis.concentrationRisk) THEN 15 ELSE 0)

RawRiskScore(nativeBalance, tokenHoldings, tokenAnalysis) ==
    LET size == nativeBalance + Len(tokenHoldings) * TICK
        nStable == Len(tokenAnalysis.stablecoins)
        denom == Max(Len(tokenHoldings), 1)
    IN  50
        + (IF size > 100 * TICK THEN 15
           ELSE IF size > 10 * TICK THEN 10
           ELSE IF size < TICK THEN -15
           ELSE 0)
        + Min(Len(tokenHoldings) * 2, 20)
        + (IF 2 * nStable > denom THEN -10
           ELSE IF 10 * nStable < denom THEN 10
           ELSE 0)
        + (IF RatLt(Rat(1, 2), tokenAnalysis.concentrationRisk) THEN 15 ELSE 0)

\* the profile assessComprehensiveRisk returns once riskScore is clamped
RiskProfileOf(riskScore, nativeBalance, tokenHoldings, tokenAnalysis) ==
    [riskScore |-> riskScore,
     riskTolerance |-> mapRiskScoreToTolerance(riskScore),
     maxSinglePosition |-> RatMul(Whole(nativeBalance), getMaxPositionRatio(riskScore)),
     diversificationLevel |-> tokenAnalysis.diversificationLevel,
     lockPeriodTolerance |-> calculateLockPeriodTolerance(riskScore),
     concentrationRisk |-> tokenAnalysis.concentrationRisk,
     liquidityRisk |-> calculateLiquidityRisk(tokenHoldings),
     stakingRiskTolerance |->
        IF riskScore < 30 THEN "LOW" ELSE IF riskScore > 70 THEN "HIGH" ELSE "MEDIUM"]

assessComprehensiveRisk(nativeBalance, tokenHoldings, tokenAnalysis) ==
    RiskProfileOf(Max(0, Min(100, RawRiskScore(nativeBalance, tokenHoldings, tokenAnalysis))),
                  nativeBalance, tokenHoldings, tokenAnalysis)

assessLiquidityProfile(tokenHoldings, nativeBalance) ==
    LET liquidTokens == SelectSeq(tokenHoldings, LAMBDA h :
                            h.symbol \in {"USDC", "USDT", "DAI", "WETH"} /\ h.balance > 0)
        stakedTokens == SelectSeq(tokenHoldings, LAMBDA h :
                            h.symbol \in {"stETH", "rETH", "cbETH"} /\ h.balance > 0)
        totalValue == nativeBalance + Sum([i \in DOMAIN tokenHoldings |-> tokenHoldings[i].balance])
        liquidityRatio == Rat(Len(liquidTokens), Max(Len(tokenHoldings), 1))
        reserved == IF RatLt(liquidityRatio, Rat(1, 5)) THEN Rat(1, 5) ELSE liquidityRatio
    IN  [liquidityRatio |-> liquidityRatio,
         withdrawalFrequency |-> IF RatLt(Rat(1, 2), liquidityRatio) THEN 4 ELSE 1,
         emergencyBuffer |-> Rat(totalValue, 10),
         preferredLockPeriods |->
            IF RatLt(Rat(3, 10), liquidityRatio) THEN << 0, 7, 30 >> ELSE << 30, 90, 365 >>,
         liquidAssets |-> liquidTokens,
         stakedAssets |-> stakedTokens,
         stakingCapacity |->
            RatMul(Whole(totalValue), Rat(reserved.d - reserved.n, reserved.d))]

(***************************************************************************)
(* Strategy and recommendation generator.                                  *)
(***************************************************************************)
\* Math.min(cap, (1 - liquidityRatio) * factor), a percentage
Allocation(cap, factor, liquidityRatio) ==
    RatMin(Whole(cap),
           RatMul(Rat(liquidityRatio.d - liquidityRatio.n, liquidityRatio.d), Whole(factor)))

generateStakingStrategy(riskProfile, liquidityNeeds, totalBalance, isTestnet) ==
    LET lr == liquidityNeeds.liquidityRatio
        base == [recommendedAllocation |-> Whole(0), preferredProtocols |-> << >>,
                 stakingHorizon |-> 365, diversificationGoal |-> 2]
        chosen ==
            IF isTestnet /\ totalBalance > TICK \div 100
            THEN [recommendedAllocation |-> Whole(40), preferredProtocols |-> << >>,
                  stakingHorizon |-> 90, diversificationGoal |-> 1]
            ELSE IF ~isTestnet
            THEN CASE riskProfile.riskTolerance = "CONSERVATIVE" ->
                        [recommendedAllocation |-> Allocation(40, 60, lr),
                         preferredProtocols |-> << "Lido", "Coinbase Wrapped Staked ETH" >>,
                         stakingHorizon |-> 180, diversificationGoal |-> 1]
                   [] riskProfile.riskTolerance = "MODERATE" ->
                        [recommendedAllocation |-> Allocation(60, 70, lr),
                         preferredProtocols |-> << "Lido", "Rocket Pool", "Aave" >>,
                         stakingHorizon |-> 365, diversificationGoal |-> 2]
                   [] riskProfile.riskTolerance = "AGGRESSIVE" ->
                        [recommendedAllocation |-> Allocation(80, 85, lr),
                         preferredProtocols |-> << "Lido", "Rocket Pool", "EigenLayer", "Aave" >>,
                         stakingHorizon |-> 730, diversificationGoal |-> 3]
                   [] riskProfile.riskTolerance = "DEGENERATE" ->
                        [recommendedAllocation |-> Allocation(90, 95, lr),
                         preferredProtocols |-> << "EigenLayer", "Rocket Pool", "Radiant", "Moonwell" >>,
                         stakingHorizon |-> 1095, diversificationGoal |-> 4]
                   [] OTHER ->
                        [base EXCEPT !.recommendedAllocation = Whole(30),
                                     !.preferredProtocols = << "Lido" >>]
            ELSE base
    IN  [recommendedAllocation |-> chosen.recommendedAllocation,
         preferredProtocols |-> chosen.preferredProtocols,
         riskTolerance |-> riskProfile.riskTolerance,
         liquidityBuffer |-> RatMul(lr, Whole(100)),
         stakingHorizon |-> chosen.stakingHorizon,
         diversificationGoal |-> chosen.diversificationGoal]

\* faulty variant: HIGH-risk options are dropped unless the tier is DEGENERATE
SuitableOptionsCapped(options, riskTolerance) ==
    SelectSeq(options, LAMBDA o :
        IF riskTolerance = "CONSERVATIVE" THEN o.riskLevel = "LOW"
        ELSE IF riskTolerance \in {"MODERATE", "AGGRESSIVE"} THEN o.riskLevel # "HIGH"
        ELSE TRUE)

\* faulty variant: nothing is filtered
SuitableOptionsUnfiltered(options, riskTolerance) == options

\* the risk filter applied to an option list
SuitableOptions(options, riskTolerance) ==
    SelectSeq(options, LAMBDA o :
        IF riskTolerance = "CONSERVATIVE" THEN o.riskLevel = "LOW"
        ELSE IF riskTolerance = "MODERATE" THEN o.riskLevel # "HIGH"
        ELSE TRUE)

priorityOrder(p) == CASE p = "HIGH" -> 3 [] p = "MEDIUM" -> 2 [] p = "LOW" -> 1

\* faulty variant: the thresholds a tenth of what they are
NativeMinThresholdLowered(isTestnet) == IF isTestnet THEN TICK \div 1000 ELSE TICK \div 100
\* faulty variant: no floor under a recommended amount
NativeMinRecommendationNoFloor(isTestnet) == 0 * TICK

\* thresholds of the native-balance loop, in ticks
NativeMinThreshold(isTestnet) == IF isTestnet THEN TICK \div 100 ELSE TICK \div 10
NativeMinRecommendation(isTestnet) == IF isTestnet THEN TICK \div 200 ELSE TICK \div 20

\* the body of the Object.entries(nativeBalances).forEach callback: the
\* recommendations (none or one) one entry adds
NativeRecommendation(entry, strategy, testnetOnly) ==
    LET ethBalance == entry.balance
        isTestnet == isTestnetChain(entry.chainName)
        recommendedEthAmount ==
            IF isTestnet THEN RatMul(Whole(ethBalance), Rat(4, 10))
            ELSE RatMul(Whole(ethBalance),
                        RatMul(strategy.recommendedAllocation, Rat(1, 100)))
        ethOptions == SuitableOptions(IF isTestnet THEN TESTNET_ETH_STAKING_OPTIONS
                                      ELSE ETH_STAKING_OPTIONS, strategy.riskTolerance)
    IN  IF (testnetOnly /\ ~isTestnet) \/ (~testnetOnly /\ isTestnet) THEN << >>
        ELSE IF ~(ethBalance > NativeMinThreshold(isTestnet)) THEN << >>
        ELSE IF ~RatLe(Whole(NativeMinRecommendation(isTestnet)), recommendedEthAmount) THEN << >>
        ELSE IF Len(ethOptions) = 0 THEN << >>
        ELSE << [recommendedAmount |-> ToFixed6(recommendedEthAmount),
                 token |-> "ETH",
                 options |-> ethOptions,
                 expectedReturn |->
                    ToFixed6(RatMul(recommendedEthAmount, Rat(ethOptions[1].expectedApr, 1000))),
                 priority |-> IF ethBalance > 5 * TICK THEN "HIGH"
                              ELSE IF ethBalance > TICK THEN "MEDIUM" ELSE "LOW",
                 isTestnet |-> isTestnet] >>

\* the filter that selects stakeableTokens
IsStakeableTokenOfAnyNetwork(token, testnetOnly) ==
    token.balance > 0 /\ token.isStakeable /\ Len(token.stakingOptions) > 0

IsStakeableToken(token, testnetOnly) ==
    LET hasBalance == token.balance > 0
        isStakeable == token.isStakeable /\ Len(token.stakingOptions) > 0
    IN  IF testnetOnly THEN token.isTestnet /\ hasBalance /\ isStakeable
        ELSE hasBalance /\ isStakeable /\ ~token.isTestnet

\* the body of the for loop over stakeableTokens
TokenRecommendation(token, strategy) ==
    LET balance == token.balance
        minStakeAmount == token.stakingOptions[1].minAmount
        minRecommendAmount == IF token.isTestnet THEN TICK ELSE 50 * TICK
        recommendedAmount == RatMul(Whole(balance), Rat(7, 10))
        suitableOptions == SuitableOptions(token.stakingOptions, strategy.riskTolerance)
    IN  IF ~(balance > Max(minStakeAmount, TICK \div 10) /\ balance >= minRecommendAmount)
        THEN << >>
        ELSE IF Len(suitableOptions) = 0 THEN << >>
        ELSE << [recommendedAmount |-> ToFixed6(recommendedAmount),
                 token |-> token.symbol,
                 options |-> suitableOptions,
                 expectedReturn |->
                    ToFixed6(RatMul(recommendedAmount, Rat(suitableOptions[1].expectedApr, 1000))),
                 priority |-> IF balance > 1000 * TICK THEN "HIGH"
                              ELSE IF balance > 100 * TICK THEN "MEDIUM" ELSE "LOW",
                 isTestnet |-> token.isTestnet] >>

generateRealStakingRecommendations(nativeBalances, tokenHoldings, strategy, riskProfile, testnetOnly) ==
    LET native == Flatten([i \in DOMAIN nativeBalances |->
                              NativeRecommendation(nativeBalances[i], strategy, testnetOnly)])
        stakeableTokens == SelectSeq(tokenHoldings,
                                     LAMBDA t : IsStakeableToken(t, testnetOnly))
        tokens == Flatten([i \in DOMAIN stakeableTokens |->
                              TokenRecommendation(stakeableTokens[i], strategy)])
    IN  The({SortDesc(recommendations,
                      [i \in DOMAIN recommendations |->
                          priorityOrder(recommendations[i].priority)]) :
             recommendations \in {native \o tokens}})

(***************************************************************************)
(* The analysis built from a snapshot (lines 1243-1325 of                  *)
(* performComprehensiveAnalysisWithStaking).  behaviorPatterns,            *)
(* preferredAssets and evmCapabilities are presentation data that no other *)
(* field depends on; they are left out of the record.                      *)
(***************************************************************************)
AnalysisOf(address, allTokenHoldings, nativeBalances, testnetOnly) ==
    The({The({The({
        [address |-> address,
         totalBalance |-> totalNativeBalance,
         tokenHoldings |-> allTokenHoldings,
         nativeBalances |-> nativeBalances,
         diversificationScore |->
            calculateDiversificationScore(allTokenHoldings, nativeBalances),
         stakingRecommendations |->
            generateRealStakingRecommendations(nativeBalances, allTokenHoldings,
                                               stakingStrategy, riskProfile, testnetOnly),
         currentStakingPositions |-> SelectSeq(allTokenHoldings, LAMBDA h :
            h.symbol \in {"stETH", "rETH", "cbETH", "sfrxETH"} /\ h.balance > 0),
         tokenAnalysis |-> tokenAnalysis,
         riskProfile |-> riskProfile,
         stakingStrategy |-> stakingStrategy,
         liquidityNeeds |-> liquidityNeeds] :
        stakingStrategy \in {generateStakingStrategy(riskProfile, liquidityNeeds,
                                                     totalNativeBalance, testnetOnly)}}) :
        riskProfile \in {assessComprehensiveRisk(totalNativeBalance, allTokenHoldings,
                                                 tokenAnalysis)},
        liquidityNeeds \in {assessLiquidityProfile(allTokenHoldings, totalNativeBalance)}}) :
        tokenAnalysis \in {analyzeTokenHoldings(allTokenHoldings)},
        totalNativeBalance \in {Sum([i \in DOMAIN nativeBalances |-> nativeBalances[i].balance])}})

BuildAnalysis(address, tokenBalances, testnetOnly) ==
    The({AnalysisOf(address, allTokenHoldings, nativeBalances, testnetOnly) :
         allTokenHoldings \in
            {Flatten([i \in DOMAIN tokenBalances |-> tokenBalances[i].tokenHoldings])},
         nativeBalances \in {NativeBalances(tokenBalances)}})

(***************************************************************************)
(* Runtime configuration.                                                  *)
(* An EVM_PRIVATE_KEY setting is "missing" or a string described by        *)
(* whether it starts with 0x, how many characters follow, and whether they *)
(* are all hexadecimal digits.                                             *)
(***************************************************************************)
MissingKey == [present |-> FALSE, prefix |-> FALSE, digits |-> 0, hex |-> FALSE]
KeyString(prefix, digits, hex) ==
    [present |-> TRUE, prefix |-> prefix, digits |-> digits, hex |-> hex]

\* normalizePrivateKey: [ok, key]
normalizePrivateKey(privateKey) ==
    IF privateKey.digits # 64 THEN [ok |-> FALSE, key |-> privateKey]
    ELSE IF ~privateKey.hex THEN [ok |-> FALSE, key |-> privateKey]
    ELSE [ok |-> TRUE, key |-> KeyString(TRUE, 64, TRUE)]

\* a validation that only requires the setting to be present
validateEvmConfigurationPresenceOnly(evmPrivateKey) ==
    IF ~evmPrivateKey.present THEN [ok |-> FALSE, key |-> evmPrivateKey]
    ELSE [ok |-> TRUE, key |-> evmPrivateKey]

\* validateEvmConfigurationStrict: [ok, key], key being the setting afterwards
validateEvmConfigurationStrict(evmPrivateKey) ==
    IF ~evmPrivateKey.present THEN [ok |-> FALSE, key |-> evmPrivateKey]
    ELSE LET fixedKey == normalizePrivateKey(evmPrivateKey)
         IN  IF ~fixedKey.ok THEN [ok |-> FALSE, key |-> evmPrivateKey]
             ELSE [ok |-> TRUE, key |-> fixedKey.key]

\* initWalletProviderWithRetry, initFails being the number of attempts of
\* initWalletProvider that throw before one succeeds
initWalletProviderWithRetry(initFails) == initFails < MaxRetries

(***************************************************************************)
(* WalletAnalyzer.analyzeWallet with performComprehensiveAnalysisWithStaking *)
(* on an analyzer whose caches are acache (analyses) and bcache (balances).*)
(* env gives what the call meets: evmPlugin (initWalletProvider was        *)
(* imported), key (the EVM_PRIVATE_KEY setting), initFails, supported      *)
(* (walletProvider.getSupportedChains()), w (the world), sts (status map   *)
(* per fetch attempt), rev (completion order reversed).                    *)
(* The result says how the call ended and what it did.                     *)
(***************************************************************************)
NoAnalysis == << >>

Failure(error, acache, bcache, key, t, inited, queried, attempts) ==
    [status |-> "error", error |-> error, analysis |-> NoAnalysis, cacheHit |-> FALSE,
     inited |-> inited, queried |-> queried, attempts |-> attempts,
     acache |-> acache, bcache |-> bcache, key |-> key, t |-> t]

performComprehensiveAnalysisWithStaking(acache, bcache, t, env, address, testnetOnly) ==
    LET valid == validateEvmConfigurationStrict(env.key)
    IN  IF ~env.evmPlugin
        THEN Failure("EVM plugin not available", acache, bcache, env.key, t, FALSE, {}, 0)
        ELSE IF ~valid.ok
        THEN Failure("EVM configuration", acache, bcache, valid.key, t, FALSE, {}, 0)
        ELSE IF ~initWalletProviderWithRetry(env.initFails)
        THEN Failure("Wallet provider initialization failed", acache, bcache, valid.key, t,
                     TRUE, {}, 0)
        ELSE The({IF fetched.outcome # "ok"
                  THEN Failure("Failed to fetch token balances", acache, fetched.cache,
                               valid.key, fetched.t, TRUE, fetched.queried, fetched.attempts)
                  ELSE [status |-> "ok", error |-> "",
                        analysis |-> BuildAnalysis(address, fetched.data, testnetOnly),
                        cacheHit |-> FALSE, inited |-> TRUE, queried |-> fetched.queried,
                        attempts |-> fetched.attempts, acache |-> acache,
                        bcache |-> fetched.cache, key |-> valid.key, t |-> fetched.t] :
                  fetched \in {getTokenBalancesWithRetry(bcache, t, env.w, env.sts, address,
                                   testnetOnly, env.supported, env.rev, 1)}})

analyzeWalletCachingFailures(acache, bcache, t, env, address, testnetOnly) ==
    LET cacheKey == CacheKey(address, testnetOnly)
    IN  The({IF cached.hit
             THEN [status |-> "ok", error |-> "", analysis |-> cached.data, cacheHit |-> TRUE,
                   inited |-> FALSE, queried |-> {}, attempts |-> 0,
                   acache |-> cached.cache, bcache |-> bcache, key |-> env.key, t |-> t]
             ELSE The({[r EXCEPT !.acache = CacheSet(r.acache, cacheKey, r.analysis, r.t)] :
                       r \in {performComprehensiveAnalysisWithStaking(
                                  cached.cache, bcache, t, env, address, testnetOnly)}}) :
             cached \in {CacheGet(acache, AnalysisTTL, cacheKey, t)}})

analyzeWallet(acache, bcache, t, env, address, testnetOnly) ==
    LET cacheKey == CacheKey(address, testnetOnly)
    IN  The({IF cached.hit
             THEN [status |-> "ok", error |-> "", analysis |-> cached.data, cacheHit |-> TRUE,
                   inited |-> FALSE, queried |-> {}, attempts |-> 0,
                   acache |-> cached.cache, bcache |-> bcache, key |-> env.key, t |-> t]
             ELSE The({IF r.status = "ok"
                       THEN [r EXCEPT !.acache = CacheSet(r.acache, cacheKey, r.analysis, r.t)]
                       ELSE r :
                       r \in {performComprehensiveAnalysisWithStaking(
                                  cached.cache, bcache, t, env, address, testnetOnly)}}) :
             cached \in {CacheGet(acache, AnalysisTTL, cacheKey, t)}})

(***************************************************************************)
(* Validator.  A message text is described by the address `who` whose 40   *)
(* digits follow its first "0x" (if it has one: prefix), the number hexrun *)
(* of hexadecimal digits that follow that "0x" before any other character, *)
(* and whether it holds one of the testnet words.  An address string is    *)
(* described by prefix, digits and who likewise.                           *)
(***************************************************************************)
NoMessage == [who |-> "", prefix |-> FALSE, hexrun |-> 0, testnet |-> FALSE]
NoMatch == [match |-> FALSE, who |-> "", prefix |-> FALSE, digits |-> 0]

\* /0x[a-fA-F0-9]{40}/ : the first match, 42 characters, or null
extractWalletAddress(text) ==
    IF text.prefix /\ text.hexrun >= 40
    THEN [match |-> TRUE, who |-> text.who, prefix |-> TRUE, digits |-> 40]
    ELSE NoMatch

\* /^0x[a-fA-F0-9]{40}$/
isValidAddress(address) == address.prefix /\ address.digits = 40

isTestnetRequest(text) == text.testnet

(***************************************************************************)
(* Inputs.                                                                 *)
(***************************************************************************)
Addresses == {"0xA11CE", "0xB0B"}

\* balances a native deposit can have: around both recommendation thresholds
\* and floors, and across the portfolio-size bands of the risk score
NativeLevels ==
    {TICK \div 100, (12 * TICK) \div 1000, TICK \div 20, TICK \div 10, (11 * TICK) \div 100,
     2 * TICK, 6 * TICK, 101 * TICK}
\* balances a token deposit can have
TokenLevels == {TICK \div 2, TICK, 50 * TICK, 150 * TICK, 1100 * TICK}

FundableAssets ==
    {<< "mainnet", "native" >>, << "base", "native" >>, << "sepolia", "native" >>,
     << "mainnet", "USDC" >>, << "mainnet", "UNI" >>, << "base", "WETH" >>,
     << "sepolia", "LINK" >>, << "sepolia", "UNI" >>}
LevelsOf(asset) == IF asset[2] = "native" THEN NativeLevels ELSE TokenLevels

\* what an address holds: a balance for at most MaxDeposits assets
Worlds ==
    UNION {{w \in [D -> NativeLevels \cup TokenLevels] : \A a \in D : w[a] \in LevelsOf(a)} :
           D \in {D \in SUBSET FundableAssets : Cardinality(D) <= MaxDeposits}}

EmptyWorld == [a \in {} |-> 0]
Deposit(chainName, asset, balance) == [a \in {<< chainName, asset >>} |-> balance]
\* a @@ b without a common key
Both(a, b) == [k \in DOMAIN a \cup DOMAIN b |-> IF k \in DOMAIN a THEN a[k] ELSE b[k]]

\* the worlds that chain outages are tried on
ProbeWorlds ==
    {EmptyWorld,
     Deposit("mainnet", "native", 2 * TICK),
     Both(Deposit("mainnet", "native", 2 * TICK), Deposit("sepolia", "native", TICK \div 20)),
     Both(Deposit("base", "WETH", TICK), Deposit("mainnet", "native", (11 * TICK) \div 100)),
     Both(Deposit("sepolia", "native", TICK \div 20), Deposit("sepolia", "LINK", TICK)),
     Both(Deposit("holesky", "native", TICK \div 20), Deposit("sepolia", "native", TICK \div 10))}

\* walletProvider.getSupportedChains(); the last is the fallback
\* Object.keys(CHAIN_CONFIG)
SupportedChoices == {<< "mainnet", "base" >>, << "mainnet", "sepolia" >>, ChainOrder}

AllUp == [c \in Range(ChainOrder) |-> "up"]
AllDown == [c \in Range(ChainOrder) |-> "down"]
AllHang == [c \in Range(ChainOrder) |-> "hang"]
One(chainName, status) == [AllUp EXCEPT ![chainName] = status]
Steady(st) == [k \in 1..MaxRetries |-> st]
Recovering(chainName) == [k \in 1..MaxRetries |-> IF k = 1 THEN One(chainName, "hang") ELSE AllUp]
OutageChains == {"mainnet", "base", "sepolia", "holesky"}
Outages ==
    {Steady(AllUp), Steady(AllDown), Steady(AllHang)}
    \cup {Steady(One(c, "down")) : c \in OutageChains}
    \cup {Steady(One(c, "hang")) : c \in OutageChains}
    \cup {Recovering(c) : c \in OutageChains}

KeyChoices ==
    {MissingKey, KeyString(FALSE, 64, TRUE), KeyString(TRUE, 64, TRUE),
     KeyString(TRUE, 63, TRUE), KeyString(FALSE, 64, FALSE)}

Scenario(w, sts, supported, rev, initFails) ==
    [w |-> w, sts |-> sts, supported |-> supported, rev |-> rev, initFails |-> initFails]
\* every world on healthy chains with every registry chain supported, and
\* every outage and every supported-chain list on the probe worlds
Scenarios ==
    {Scenario(w, Steady(AllUp), ChainOrder, rev, 0) : w \in Worlds, rev \in BOOLEAN}
    \cup {Scenario(w, sts, sc, rev, f) :
        w \in ProbeWorlds, sts \in Outages, sc \in SupportedChoices, rev \in BOOLEAN,
        f \in 0..MaxRetries}
\* the scenarios of the runs with several calls
CacheScenarios ==
    {Scenario(w, Steady(AllUp), << "mainnet", "sepolia" >>, FALSE, f) :
        w \in {EmptyWorld, Deposit("mainnet", "native", 2 * TICK)},
        f \in {0, MaxRetries}}

\* a catalog token of a chain, by symbol
CatalogToken(chainName, symbol) ==
    LET tokens == IF isTestnetChain(chainName) THEN TESTNET_TOKEN_DATABASE(chainName)
                  ELSE TOKEN_DATABASE(chainName)
    IN  tokens[CHOOSE i \in 1..Len(tokens) : tokens[i].symbol = symbol]
\* the holding getTokenBalancesForChain reports for a catalog token
Holding(chainName, symbol, balance) ==
    LET tc == CatalogToken(chainName, symbol)
    IN  [symbol |-> tc.symbol, balance |-> balance, chainName |-> chainName,
         isStakeable |-> tc.isStakeable, stakingOptions |-> tc.stakingOptions,
         isTestnet |-> tc.isTestnet \/ isTestnetChain(chainName)]
HeldTokens ==
    {<< "mainnet", "USDC" >>, << "mainnet", "DAI" >>, << "mainnet", "UNI" >>,
     << "base", "WETH" >>, << "sepolia", "LINK" >>}
HoldingLevels == {TICK \div 2, TICK, 150 * TICK}
\* the lists of at most MaxHoldings holdings of distinct tokens
HoldingLists ==
    {[i \in DOMAIN s |-> Holding(s[i][1][1], s[i][1][2], s[i][2])] :
       s \in {s \in UNION {[1..n -> HeldTokens \X HoldingLevels] : n \in 0..MaxHoldings} :
                \A i, j \in DOMAIN s : i # j => s[i][1] # s[j][1]}}

(***************************************************************************)
(* State.                                                                  *)
(***************************************************************************)
VARIABLES
    now,             \* minutes since start (Date.now())
    analysisCache,   \* WalletAnalyzer.cache of the registered provider instance
    balanceCache,    \* InternalTokenBalanceProvider.cache of that instance
    evmPlugin,       \* initWalletProvider was imported from the EVM plugin
    EVM_PRIVATE_KEY, \* the runtime setting
    calls,           \* calls made so far
    last,            \* the last call: what it was given, met, did and returned
    computed,        \* per cache key, the latest analysis a call computed, when, and
                     \* through which entry point (history, not program state)
    tokenHoldings,   \* the argument of analyzeTokenHoldings
    tokenAnalysis    \* its result

\* one Cache<T> object on its own
VARIABLES
    cache,           \* Cache.cache, the map
    ttl,             \* Cache.ttl
    sets,            \* per key, the data and time of the latest set (history)
    op               \* the latest get or set: its key, time, result and the map
                     \* it found (history)

\* one run of the balance-fetch retry loop, step by step
VARIABLES retry

\* analyzeWallet calls in flight on the registered instance
VARIABLES inflight

\* one run of the risk profile, strategy and recommendation generator on
\* given inputs
VARIABLES generator

\* one analyzer's balance-fetch loop with its timeout race, step by step: the
\* promises of getTokenBalances it started, abandoned ones included
VARIABLES fetch

main == << now, analysisCache, balanceCache, evmPlugin, EVM_PRIVATE_KEY, calls, last,
           computed, tokenHoldings, tokenAnalysis >>

aux == << cache, ttl, sets, op, retry, inflight, generator, fetch >>

\* the message a provider or handler call was given
VARIABLES message

vars == << main, aux, message >>

\* the loop before it is entered: where it stands, the attempt it is in, and
\* (history) how each attempt ended, how many seconds each took, the delays
\* waited in milliseconds and the seconds elapsed
NoRetry == [pc |-> "idle", attempt |-> 0, outcomes |-> << >>, durations |-> << >>,
            delays |-> << >>, elapsed |-> 0]

\* a call not yet made: where it stands and (history) what it met and returned
NoFlight ==
    [pc |-> "idle", status |-> "", analysis |-> NoAnalysis, cacheHit |-> FALSE,
     balanceHit |-> FALSE, fetched |-> FALSE, data |-> << >>, t |-> 0]

\* the calls, their mode, and (history) the order in which they returned
RaceCalls == {1, 2}
NoFlights == [call |-> [i \in RaceCalls |-> NoFlight], testnetOnly |-> FALSE, order |-> << >>]

\* the generator before it has run: its inputs blank, its results absent
NoGenerator ==
    [riskScore |-> 0, nativeBalances |-> << >>, tokenHoldings |-> << >>,
     testnetOnly |-> FALSE, done |-> FALSE, riskProfile |-> << >>, strategy |-> << >>,
     recommendations |-> << >>, scored |-> FALSE, enhanced |-> << >>]

\* the fetch loop before its first call: no promise started; written is the
\* promise that stored the last snapshot, and that snapshot
NoFetch ==
    [pc |-> "idle", call |-> 0, attempt |-> 0, promises |-> << >>, served |-> "",
     data |-> << >>, written |-> [by |-> 0, data |-> << >>]]

NoOp == [kind |-> "none", key |-> << >>, t |-> 0, hit |-> FALSE, data |-> << >>,
         before |-> EmptyCache]

\* new Cache(ttl), untouched
CacheIdle ==
    /\ cache = EmptyCache
    /\ ttl = AnalysisTTL
    /\ sets = EmptyCache
    /\ op = NoOp

NoPrev == [exists |-> FALSE, t |-> 0, analysis |-> NoAnalysis, entry |-> "none"]
NoCall ==
    [entry |-> "none", address |-> "", testnetOnly |-> FALSE, status |-> "", error |-> "",
     analysis |-> NoAnalysis, cacheHit |-> FALSE, inited |-> FALSE, queried |-> {},
     attempts |-> 0, t0 |-> 0, t |-> 0, prev |-> NoPrev, supported |-> << >>,
     w |-> EmptyWorld, sts |-> Steady(AllUp), rev |-> FALSE, initFails |-> 0]

\* the record of a call: its inputs as far as the call consumed them
Recorded(entry, address, testnetOnly, sc, r, t0, prev) ==
    [entry |-> entry, address |-> address, testnetOnly |-> testnetOnly,
     status |-> r.status, error |-> r.error, analysis |-> r.analysis,
     cacheHit |-> r.cacheHit, inited |-> r.inited, queried |-> r.queried,
     attempts |-> r.attempts, t0 |-> t0, t |-> r.t, prev |-> prev,
     supported |-> IF r.queried = {} THEN << >> ELSE chainsToCheck(testnetOnly, sc.supported),
     w |-> IF r.queried = {} THEN EmptyWorld ELSE sc.w,
     sts |-> IF r.queried = {} THEN Steady(AllUp) ELSE sc.sts,
     rev |-> r.queried # {} /\ sc.rev,
     initFails |-> IF r.inited THEN sc.initFails ELSE 0]

\* one call of analyzeWallet, on the registered provider instance (entry
\* "provider": WalletAnalyzer.get) or on the instance the action handler has
\* just constructed (entry "handler": new WalletAnalyzer())
Analyze(entry, address, testnetOnly, sc) ==
    LET fresh == entry = "handler"
        env == [evmPlugin |-> evmPlugin, key |-> EVM_PRIVATE_KEY, initFails |-> sc.initFails,
                supported |-> sc.supported, w |-> sc.w, sts |-> sc.sts, rev |-> sc.rev]
        key == CacheKey(address, testnetOnly)
        prev == IF key \in DOMAIN computed
                THEN [exists |-> TRUE, t |-> computed[key].timestamp,
                      analysis |-> computed[key].data, entry |-> computed[key].entry]
                ELSE NoPrev
    IN  \E r \in {analyzeWallet(IF fresh THEN EmptyCache ELSE analysisCache,
                                IF fresh THEN EmptyCache ELSE balanceCache,
                                now, env, address, testnetOnly)} :
        /\ analysisCache' = IF fresh THEN analysisCache ELSE r.acache
        /\ balanceCache' = IF fresh THEN balanceCache ELSE r.bcache
        /\ now' = r.t
        /\ EVM_PRIVATE_KEY' = r.key
        /\ calls' = calls + 1
        /\ last' = Recorded(entry, address, testnetOnly, sc, r, now, prev)
        /\ computed' = IF r.status = "ok" /\ ~r.cacheHit
                       THEN [k \in DOMAIN computed \cup {key} |->
                                IF k = key
                                THEN [data |-> r.analysis, timestamp |-> r.t, entry |-> entry]
                                ELSE computed[k]]
                       ELSE computed
        /\ UNCHANGED << evmPlugin, tokenHoldings, tokenAnalysis, aux >>

(***************************************************************************)
(* Spec: several calls over time, on the registered provider instance and  *)
(* through the action handler.                                             *)
(***************************************************************************)
TickStep == AnalysisTTL \div 2

Init ==
    /\ now = 0
    /\ analysisCache = EmptyCache
    /\ balanceCache = EmptyCache
    /\ evmPlugin \in BOOLEAN
    /\ EVM_PRIVATE_KEY \in KeyChoices
    /\ calls = 0
    /\ last = NoCall
    /\ computed = EmptyCache
    /\ tokenHoldings = << >>
    /\ tokenAnalysis = NoAnalysis
    /\ CacheIdle
    /\ message = NoMessage
    /\ retry = NoRetry
    /\ inflight = NoFlights
    /\ generator = NoGenerator
    /\ fetch = NoFetch

ProviderGet ==
    /\ calls < MaxCalls
    /\ \E address \in Addresses, testnetOnly \in BOOLEAN, sc \in CacheScenarios :
          Analyze("provider", address, testnetOnly, sc)
    /\ UNCHANGED message

HandlerCall ==
    /\ calls < MaxCalls
    /\ \E address \in Addresses, testnetOnly \in BOOLEAN, sc \in CacheScenarios :
          Analyze("handler", address, testnetOnly, sc)
    /\ UNCHANGED message

Tick ==
    /\ now + TickStep <= MaxTime
    /\ now' = now + TickStep
    /\ UNCHANGED << analysisCache, balanceCache, evmPlugin, EVM_PRIVATE_KEY, calls, last,
                    computed, tokenHoldings, tokenAnalysis, aux, message >>

Next == ProviderGet \/ HandlerCall \/ Tick

Spec == Init /\ [][Next]_vars

(***************************************************************************)
(* SpecAnalyze: one call, over every scenario.                             *)
(***************************************************************************)
Alice == "0xA11CE"

AnalyzeOnce ==
    /\ calls = 0
    /\ \E testnetOnly \in BOOLEAN, sc \in Scenarios :
          Analyze("provider", Alice, testnetOnly, sc)
    /\ UNCHANGED message

NextAnalyze == AnalyzeOnce

SpecAnalyze == Init /\ [][NextAnalyze]_vars

(***************************************************************************)
(* SpecHoldings: analyzeTokenHoldings on every list of holdings.           *)
(***************************************************************************)
InitHoldings ==
    /\ now = 0
    /\ analysisCache = EmptyCache
    /\ balanceCache = EmptyCache
    /\ evmPlugin = TRUE
    /\ EVM_PRIVATE_KEY = KeyString(TRUE, 64, TRUE)
    /\ calls = 0
    /\ last = NoCall
    /\ computed = EmptyCache
    /\ tokenHoldings \in HoldingLists
    /\ tokenAnalysis = NoAnalysis
    /\ CacheIdle
    /\ message = NoMessage
    /\ retry = NoRetry
    /\ inflight = NoFlights
    /\ generator = NoGenerator
    /\ fetch = NoFetch

AnalyzeTokenHoldings ==
    /\ calls = 0
    /\ tokenAnalysis' = analyzeTokenHoldings(tokenHoldings)
    /\ calls' = 1
    /\ UNCHANGED << now, analysisCache, balanceCache, evmPlugin, EVM_PRIVATE_KEY, last,
                    computed, tokenHoldings, aux, message >>

NextHoldings == AnalyzeTokenHoldings

SpecHoldings == InitHoldings /\ [][NextHoldings]_vars

(***************************************************************************)
(* SpecCache: gets and sets on one Cache object as time passes.            *)
(***************************************************************************)
CacheKeys == {CacheKey(Alice, FALSE), CacheKey(Alice, TRUE)}

CacheData == {"v1", "v2"}

InitCache ==
    /\ now = 0
    /\ analysisCache = EmptyCache
    /\ balanceCache = EmptyCache
    /\ evmPlugin = TRUE
    /\ EVM_PRIVATE_KEY = KeyString(TRUE, 64, TRUE)
    /\ calls = 0
    /\ last = NoCall
    /\ computed = EmptyCache
    /\ tokenHoldings = << >>
    /\ tokenAnalysis = NoAnalysis
    /\ cache = EmptyCache
    /\ ttl \in {AnalysisTTL, BalanceTTL}
    /\ sets = EmptyCache
    /\ op = NoOp
    /\ message = NoMessage
    /\ retry = NoRetry
    /\ inflight = NoFlights
    /\ generator = NoGenerator
    /\ fetch = NoFetch

Get ==
    \E key \in CacheKeys :
    \E r \in {CacheGet(cache, ttl, key, now)} :
       /\ cache' = r.cache
       /\ op' = [kind |-> "get", key |-> key, t |-> now, hit |-> r.hit, data |-> r.data,
                 before |-> cache]
       /\ UNCHANGED << main, ttl, sets, message, retry, inflight, generator, fetch >>

Set ==
    \E key \in CacheKeys, data \in CacheData :
       /\ cache' = CacheSet(cache, key, data, now)
       /\ sets' = [k \in DOMAIN sets \cup {key} |->
                      IF k = key THEN [data |-> data, timestamp |-> now] ELSE sets[k]]
       /\ op' = [kind |-> "set", key |-> key, t |-> now, hit |-> FALSE, data |-> data,
                 before |-> cache]
       /\ UNCHANGED << main, ttl, message, retry, inflight, generator, fetch >>

NextCache == Get \/ Set \/ Tick

SpecCache == InitCache /\ [][NextCache]_vars

(***************************************************************************)
(* SpecMessage: one call given a message text, through WalletAnalyzer.get  *)
(* or through the action handler.                                          *)
(***************************************************************************)
HexRuns == {39, 40, 41, 64}

Messages ==
    {[who |-> who, prefix |-> prefix, hexrun |-> hexrun, testnet |-> testnet] :
        who \in Addresses, prefix \in BOOLEAN, hexrun \in HexRuns, testnet \in BOOLEAN}

\* the call ends at the address check
Rejected(entry, error) ==
    /\ calls' = calls + 1
    /\ last' = [NoCall EXCEPT !.entry = entry, !.status = "error", !.error = error,
                              !.t0 = now, !.t = now]
    /\ UNCHANGED << now, analysisCache, balanceCache, evmPlugin, EVM_PRIVATE_KEY, computed,
                    tokenHoldings, tokenAnalysis, aux >>

\* WalletAnalyzer.get
MessageGet ==
    /\ calls = 0
    /\ \E text \in Messages, sc \in CacheScenarios :
       \E walletAddress \in {extractWalletAddress(text)} :
          /\ message' = text
          /\ IF ~walletAddress.match \/ ~isValidAddress(walletAddress)
             THEN Rejected("provider", "Invalid wallet address provided")
             ELSE Analyze("provider", walletAddress.who, isTestnetRequest(text), sc)

\* analyzeWalletAction.handler
MessageHandler ==
    /\ calls = 0
    /\ \E text \in Messages, sc \in CacheScenarios :
       \E walletAddress \in {extractWalletAddress(text)} :
          /\ message' = text
          /\ IF ~walletAddress.match \/ ~isValidAddress(walletAddress)
             THEN Rejected("handler", "Please provide a valid wallet address to analyze")
             ELSE Analyze("handler", walletAddress.who, isTestnetRequest(text), sc)

NextMessage == MessageGet \/ MessageHandler

SpecMessage == Init /\ [][NextMessage]_vars

(***************************************************************************)
(* SpecRetry: the loop of getTokenBalancesWithRetry step by step.  An      *)
(* attempt races getTokenBalances against a 60 s timer: the aggregation    *)
(* resolves or rejects after some seconds below the timeout, or the timer  *)
(* rejects.  Timers fire and promises settle, hence the fairness.          *)
(***************************************************************************)
\* the timeout of one attempt, in seconds
FetchTimeout == 60

\* a backoff that does not grow
RetryDelayConstant(attempt) == 2 * 2000

\* Math.pow(2, attempt) * 2000, in milliseconds
RetryDelay(attempt) == (2 ^ attempt) * 2000

\* seconds after which an aggregation settles when it beats the timer
SettleTimes == {1, 30, FetchTimeout - 1}

InitRetry ==
    /\ now = 0
    /\ analysisCache = EmptyCache
    /\ balanceCache = EmptyCache
    /\ evmPlugin = TRUE
    /\ EVM_PRIVATE_KEY = KeyString(TRUE, 64, TRUE)
    /\ calls = 0
    /\ last = NoCall
    /\ computed = EmptyCache
    /\ tokenHoldings = << >>
    /\ tokenAnalysis = NoAnalysis
    /\ CacheIdle
    /\ message = NoMessage
    /\ retry = NoRetry
    /\ inflight = NoFlights
    /\ generator = NoGenerator
    /\ fetch = NoFetch

\* the catch block: back off when attempts remain, else leave the loop and throw
AttemptFailed(outcome, seconds) ==
    /\ retry.pc = "attempt"
    /\ retry' = [retry EXCEPT
            !.outcomes = Append(@, outcome),
            !.durations = Append(@, seconds),
            !.elapsed = @ + seconds,
            !.pc = IF retry.attempt < MaxRetries THEN "backoff" ELSE "thrown",
            !.delays = IF retry.attempt < MaxRetries
                       THEN Append(@, RetryDelay(retry.attempt)) ELSE @]
    /\ UNCHANGED << main, cache, ttl, sets, op, message, inflight, generator, fetch >>

\* the loop is entered: attempt = 1
EnterLoop ==
    /\ retry.pc = "idle"
    /\ retry' = [retry EXCEPT !.pc = "attempt", !.attempt = 1]
    /\ UNCHANGED << main, cache, ttl, sets, op, message, inflight, generator, fetch >>

\* the aggregation resolves first: return tokenBalances
AttemptReturns ==
    /\ retry.pc = "attempt"
    /\ \E seconds \in SettleTimes :
          retry' = [retry EXCEPT
              !.outcomes = Append(@, "ok"),
              !.durations = Append(@, seconds),
              !.elapsed = @ + seconds,
              !.pc = "returned"]
    /\ UNCHANGED << main, cache, ttl, sets, op, message, inflight, generator, fetch >>

\* the aggregation rejects first
AttemptThrows == \E seconds \in SettleTimes : AttemptFailed("error", seconds)

\* the timer rejects first
AttemptTimesOut == AttemptFailed("timeout", FetchTimeout)

\* the delay has passed: attempt++
BackoffOver ==
    /\ retry.pc = "backoff"
    /\ retry' = [retry EXCEPT
            !.pc = "attempt",
            !.attempt = @ + 1,
            !.elapsed = @ + (retry.delays[Len(retry.delays)] \div 1000)]
    /\ UNCHANGED << main, cache, ttl, sets, op, message, inflight, generator, fetch >>

NextRetry == EnterLoop \/ AttemptReturns \/ AttemptThrows \/ AttemptTimesOut \/ BackoffOver

SpecRetry == InitRetry /\ [][NextRetry]_vars /\ WF_vars(NextRetry)

(***************************************************************************)
(* SpecRace: two analyzeWallet calls for one address and mode on the       *)
(* registered instance, interleaved at their awaits.  A call runs in three *)
(* stretches: up to the await of the wallet provider (Begin), from there   *)
(* to the await of the chain queries (Aggregate), and from the answers to  *)
(* its return (Complete).  Every chain answers; what the address holds     *)
(* when a call's queries are answered is any of RaceWorlds.                *)
(***************************************************************************)
RaceWorlds == {Deposit("mainnet", "native", 2 * TICK), Deposit("mainnet", "native", 6 * TICK)}

RaceSupported == << "mainnet", "sepolia" >>

InitRace ==
    /\ now = 0
    /\ analysisCache = EmptyCache
    /\ balanceCache = EmptyCache
    /\ evmPlugin \in BOOLEAN
    /\ EVM_PRIVATE_KEY \in KeyChoices
    /\ calls = 0
    /\ last = NoCall
    /\ computed = EmptyCache
    /\ tokenHoldings = << >>
    /\ tokenAnalysis = NoAnalysis
    /\ CacheIdle
    /\ message = NoMessage
    /\ retry = NoRetry
    /\ inflight \in {[NoFlights EXCEPT !.testnetOnly = testnetOnly] : testnetOnly \in BOOLEAN}
    /\ generator = NoGenerator
    /\ fetch = NoFetch

\* the call returns or throws
Returns(i, status, analysis, cacheHit, balanceHit, fetched, data) ==
    inflight' = [inflight EXCEPT
        !.call[i] = [pc |-> "done", status |-> status, analysis |-> analysis,
                     cacheHit |-> cacheHit, balanceHit |-> balanceHit, fetched |-> fetched,
                     data |-> data, t |-> now],
        !.order = Append(@, i)]

\* analyzeWallet up to the await of initWalletProviderWithRetry
Begin(i) ==
    /\ inflight.call[i].pc = "idle"
    /\ \E cached \in {CacheGet(analysisCache, AnalysisTTL,
                                 CacheKey(Alice, inflight.testnetOnly), now)},
          valid \in {validateEvmConfigurationStrict(EVM_PRIVATE_KEY)} :
          /\ analysisCache' = cached.cache
          /\ IF cached.hit
             THEN /\ Returns(i, "ok", cached.data, TRUE, FALSE, FALSE, << >>)
                  /\ UNCHANGED EVM_PRIVATE_KEY
             ELSE IF ~evmPlugin
             THEN /\ Returns(i, "error", NoAnalysis, FALSE, FALSE, FALSE, << >>)
                  /\ UNCHANGED EVM_PRIVATE_KEY
             ELSE IF ~valid.ok
             THEN /\ Returns(i, "error", NoAnalysis, FALSE, FALSE, FALSE, << >>)
                  /\ EVM_PRIVATE_KEY' = valid.key
             ELSE /\ inflight' = [inflight EXCEPT !.call[i].pc = "initialising"]
                  /\ EVM_PRIVATE_KEY' = valid.key
    /\ UNCHANGED << now, balanceCache, evmPlugin, calls, last, computed, tokenHoldings,
                    tokenAnalysis, cache, ttl, sets, op, retry, message, generator, fetch >>

\* from the wallet provider to the cache lookup of getTokenBalances: a hit
\* is returned and analysed without an await, a miss starts the queries
Aggregate(i) ==
    /\ inflight.call[i].pc = "initialising"
    /\ \E cached \in {CacheGet(balanceCache, BalanceTTL,
                                 CacheKey(Alice, inflight.testnetOnly), now)} :
          /\ balanceCache' = cached.cache
          /\ IF cached.hit
             THEN \E analysis \in {BuildAnalysis(Alice, cached.data, inflight.testnetOnly)} :
                     /\ analysisCache' = CacheSet(analysisCache,
                                              CacheKey(Alice, inflight.testnetOnly), analysis, now)
                     /\ Returns(i, "ok", analysis, FALSE, TRUE, FALSE, cached.data)
             ELSE /\ inflight' = [inflight EXCEPT !.call[i].pc = "querying"]
                  /\ UNCHANGED analysisCache
    /\ UNCHANGED << now, evmPlugin, EVM_PRIVATE_KEY, calls, last, computed, tokenHoldings,
                    tokenAnalysis, cache, ttl, sets, op, retry, message, generator, fetch >>

\* the queries are answered: getTokenBalances stores and returns the
\* snapshot (its own lookup missed, so it runs on the cache without the
\* key), the analysis is built, stored and returned
Complete(i) ==
    /\ inflight.call[i].pc = "querying"
    /\ \E w \in RaceWorlds :
       \E r \in {getTokenBalances(
                    [k \in DOMAIN balanceCache \ {CacheKey(Alice, inflight.testnetOnly)} |->
                        balanceCache[k]],
                    now, w, AllUp, Alice, inflight.testnetOnly, RaceSupported, FALSE)} :
       \E analysis \in {BuildAnalysis(Alice, r.data, inflight.testnetOnly)} :
          /\ balanceCache' = r.cache
          /\ analysisCache' = CacheSet(analysisCache, CacheKey(Alice, inflight.testnetOnly),
                                       analysis, now)
          /\ Returns(i, "ok", analysis, FALSE, FALSE, TRUE, r.data)
    /\ UNCHANGED << now, evmPlugin, EVM_PRIVATE_KEY, calls, last, computed, tokenHoldings,
                    tokenAnalysis, cache, ttl, sets, op, retry, message, generator, fetch >>

NextRace ==
    \/ \E i \in RaceCalls : Begin(i)
    \/ \E i \in RaceCalls : Aggregate(i)
    \/ \E i \in RaceCalls : Complete(i)
    \/ Tick

SpecRace == InitRace /\ [][NextRace]_vars

(***************************************************************************)
(* SpecGenerator: the risk profile of a clamped score, the strategy and    *)
(* the recommendations, on native balances and holdings of either kind of  *)
(* chain in either mode.                                                   *)
(***************************************************************************)
\* Personalized scoring of a recommendation by the calling layer. Factors
\* and scores are exact rationals; parseFloat reads the leading number of a
\* printed amount, here the amount in ticks divided by TICK.
getRiskAlignment(rec, riskProfile) ==
    LET recRisk == rec.options[1].riskLevel
        userRisk == riskProfile.stakingRiskTolerance
    IN  IF recRisk = userRisk THEN Whole(1)
        ELSE IF \/ recRisk = "LOW" /\ userRisk = "MEDIUM"
                \/ recRisk = "MEDIUM" /\ userRisk = "HIGH"
                \/ recRisk = "MEDIUM" /\ userRisk = "LOW"
        THEN Rat(7, 10)
        ELSE Rat(3, 10)

getAssetPreferenceMatch(rec, holdings) ==
    LET held == SelectSeq(holdings, LAMBDA token : token.symbol = rec.token)
    IN  IF Len(held) = 0 THEN Whole(0)
        ELSE IF RatLt(rec.recommendedAmount, Whole(held[1].balance)) THEN Whole(1)
        ELSE Rat(1, 2)

getLiquidityMatch(rec, riskProfile) ==
    LET lockPeriod == IF rec.options[1].lockPeriod = -1 THEN 0
                      ELSE rec.options[1].lockPeriod
        tolerance == riskProfile.lockPeriodTolerance
    IN  IF lockPeriod = 0 THEN Whole(1)
        ELSE IF lockPeriod <= tolerance THEN Rat(8, 10)
        ELSE IF lockPeriod <= tolerance * 2 THEN Rat(4, 10)
        ELSE Rat(1, 10)

calculatePersonalizedScore(rec, riskProfile, holdings) ==
    LET riskAlignment == getRiskAlignment(rec, riskProfile)
        assetMatch == getAssetPreferenceMatch(rec, holdings)
        liquidityMatch == getLiquidityMatch(rec, riskProfile)
        returnScore == RatMin(RatMul(RatMul(rec.expectedReturn, Rat(1, TICK)), Whole(2)),
                              Whole(10))
        bonus == IF rec.isTestnet THEN Whole(5) ELSE Whole(0)
        score == RatAdd(RatAdd(RatAdd(RatAdd(RatAdd(Whole(50),
                     RatMul(riskAlignment, Whole(20))),
                     RatMul(assetMatch, Whole(15))),
                     RatMul(liquidityMatch, Whole(15))),
                     returnScore),
                     bonus)
    IN  RatMin(IF RatLt(score, Whole(0)) THEN Whole(0) ELSE score, Whole(100))

\* the scored recommendations, highest score first; the sort key is the
\* score in millionths of a point
EnhancedRecommendations(recommendations, riskProfile, holdings) ==
    LET enhanced == [i \in DOMAIN recommendations |->
                        [rec |-> recommendations[i],
                         personalizedScore |->
                            calculatePersonalizedScore(recommendations[i], riskProfile,
                                                       holdings)]]
    IN  SortDesc(enhanced,
                 [i \in DOMAIN enhanced |->
                     enhanced[i].personalizedScore.n
                        * ((10 * TICK) \div enhanced[i].personalizedScore.d)])

\* clamped scores on both sides of every threshold
GeneratorScores == {0, 24, 25, 29, 30, 49, 50, 70, 71, 74, 75, 100}

NativeEntry(chainName, balance) == [chainName |-> chainName, balance |-> balance]

GeneratorNative ==
    {<< >>,
     << NativeEntry("mainnet", TICK \div 2) >>,
     << NativeEntry("mainnet", 2 * TICK) >>,
     << NativeEntry("mainnet", 40 * TICK), NativeEntry("base", 11 * TICK) >>,
     << NativeEntry("sepolia", TICK \div 200) >>,
     << NativeEntry("sepolia", TICK \div 20) >>,
     << NativeEntry("sepolia", TICK \div 20), NativeEntry("mainnet", 6 * TICK) >>}

GeneratorHoldings ==
    {<< >>,
     << Holding("mainnet", "USDC", 150 * TICK) >>,
     << Holding("mainnet", "UNI", 150 * TICK), Holding("base", "WETH", 60 * TICK) >>,
     << Holding("sepolia", "UNI", 2 * TICK) >>,
     << Holding("mainnet", "USDC", 60 * TICK), Holding("base", "USDC", 150 * TICK) >>,
     << Holding("sepolia", "LINK", 2 * TICK), Holding("mainnet", "DAI", 1100 * TICK) >>}

InitGenerator ==
    /\ now = 0
    /\ analysisCache = EmptyCache
    /\ balanceCache = EmptyCache
    /\ evmPlugin = TRUE
    /\ EVM_PRIVATE_KEY = KeyString(TRUE, 64, TRUE)
    /\ calls = 0
    /\ last = NoCall
    /\ computed = EmptyCache
    /\ tokenHoldings = << >>
    /\ tokenAnalysis = NoAnalysis
    /\ CacheIdle
    /\ message = NoMessage
    /\ retry = NoRetry
    /\ inflight = NoFlights
    /\ fetch = NoFetch
    /\ generator \in
          {[NoGenerator EXCEPT !.riskScore = riskScore, !.nativeBalances = nativeBalances,
                               !.tokenHoldings = holdings, !.testnetOnly = testnetOnly] :
              riskScore \in GeneratorScores, nativeBalances \in GeneratorNative,
              holdings \in GeneratorHoldings, testnetOnly \in BOOLEAN}

\* lines 1267-1305 of performComprehensiveAnalysisWithStaking from a given
\* score: profile, liquidity, strategy, recommendations
Generate ==
    /\ ~generator.done
    /\ \E total \in {Sum([i \in DOMAIN generator.nativeBalances |->
                               generator.nativeBalances[i].balance])} :
       \E riskProfile \in {RiskProfileOf(generator.riskScore, total, generator.tokenHoldings,
                                          analyzeTokenHoldings(generator.tokenHoldings))} :
       \E strategy \in {generateStakingStrategy(riskProfile,
                             assessLiquidityProfile(generator.tokenHoldings, total),
                             total, generator.testnetOnly)} :
          generator' = [generator EXCEPT
              !.done = TRUE,
              !.riskProfile = riskProfile,
              !.strategy = strategy,
              !.recommendations =
                  generateRealStakingRecommendations(generator.nativeBalances,
                      generator.tokenHoldings, strategy, riskProfile, generator.testnetOnly)]
    /\ UNCHANGED << main, cache, ttl, sets, op, retry, inflight, message, fetch >>

\* the calling layer scores the recommendations of a finished analysis and
\* orders them by score
Personalize ==
    /\ generator.done
    /\ ~generator.scored
    /\ generator' = [generator EXCEPT
           !.scored = TRUE,
           !.enhanced = EnhancedRecommendations(generator.recommendations,
                            generator.riskProfile, generator.tokenHoldings)]
    /\ UNCHANGED << main, cache, ttl, sets, op, retry, inflight, message, fetch >>

NextGenerator == Generate \/ Personalize

SpecGenerator == InitGenerator /\ [][NextGenerator]_vars

(***************************************************************************)
(* SpecTimeout: getTokenBalancesWithRetry step by step with the promises   *)
(* of getTokenBalances it starts.  Promise.race settles for the timeout    *)
(* without cancelling the aggregation, whose promise stays pending and may *)
(* settle at any later time; the world may differ from one read to the     *)
(* next.  Time is in minutes: the timeout takes 1, the backoff none.       *)
(***************************************************************************)
FetchKey == CacheKey(Alice, FALSE)

\* the balances getTokenBalances aggregates over world w
Snapshot(w) ==
    getTokenBalances(EmptyCache, 0, w, AllUp, Alice, FALSE, RaceSupported, FALSE).data

\* the cache.set that ends getTokenBalances, run by whichever promise settles
WriteCancelled(c, key, data, t) == c

SettledWrite(c, key, data, t) == CacheSet(c, key, data, t)

InitTimeout ==
    /\ Init
    /\ evmPlugin
    /\ EVM_PRIVATE_KEY = KeyString(TRUE, 64, TRUE)

\* getTokenBalances up to its first await: a cached snapshot is returned,
\* a miss starts the chain queries and the race with the timeout
Lookup(call, attempt) ==
    \E cached \in {CacheGet(balanceCache, BalanceTTL, FetchKey, now)} :
       /\ balanceCache' = cached.cache
       /\ fetch' = IF cached.hit
                   THEN [fetch EXCEPT !.pc = "returned", !.call = call, !.attempt = attempt,
                                      !.served = "cache", !.data = cached.data]
                   ELSE [fetch EXCEPT !.pc = "racing", !.call = call, !.attempt = attempt,
                                      !.served = "", !.data = << >>,
                                      !.promises = Append(@, [call |-> call,
                                          attempt |-> attempt, state |-> "pending"])]

\* a call enters the loop: attempt 1
FetchCall ==
    /\ fetch.pc \in {"idle", "returned", "thrown"}
    /\ fetch.call < MaxCalls
    /\ Lookup(fetch.call + 1, 1)
    /\ UNCHANGED << now, analysisCache, evmPlugin, EVM_PRIVATE_KEY, calls, last, computed,
                    tokenHoldings, tokenAnalysis, cache, ttl, sets, op, retry, inflight,
                    generator, message >>

\* the backoff is over: the next attempt
FetchRetry ==
    /\ fetch.pc = "backoff"
    /\ Lookup(fetch.call, fetch.attempt + 1)
    /\ UNCHANGED << now, analysisCache, evmPlugin, EVM_PRIVATE_KEY, calls, last, computed,
                    tokenHoldings, tokenAnalysis, cache, ttl, sets, op, retry, inflight,
                    generator, message >>

\* the aggregation wins the race: its snapshot is stored and returned
SettlesInTime ==
    /\ fetch.pc = "racing"
    /\ \E w \in RaceWorlds :
       \E data \in {Snapshot(w)} :
          /\ balanceCache' = SettledWrite(balanceCache, FetchKey, data, now)
          /\ fetch' = [fetch EXCEPT !.pc = "returned", !.served = "fetch", !.data = data,
                                    !.promises[Len(fetch.promises)].state = "settled",
                                    !.written = [by |-> Len(fetch.promises),
                                                 data |-> data]]
    /\ UNCHANGED << now, analysisCache, evmPlugin, EVM_PRIVATE_KEY, calls, last, computed,
                    tokenHoldings, tokenAnalysis, cache, ttl, sets, op, retry, inflight,
                    generator, message >>

\* the timeout wins the race: the attempt fails, its promise stays pending
TimeoutWins ==
    /\ fetch.pc = "racing"
    /\ now + 1 <= MaxTime
    /\ now' = now + 1
    /\ fetch' = [fetch EXCEPT
           !.pc = IF fetch.attempt < MaxRetries THEN "backoff" ELSE "thrown",
           !.promises[Len(fetch.promises)].state = "abandoned"]
    /\ UNCHANGED << analysisCache, balanceCache, evmPlugin, EVM_PRIVATE_KEY, calls, last,
                    computed, tokenHoldings, tokenAnalysis, cache, ttl, sets, op, retry,
                    inflight, generator, message >>

\* an aggregation that lost its race settles
SettlesLate(j) ==
    /\ fetch.promises[j].state = "abandoned"
    /\ \E w \in RaceWorlds :
       \E data \in {Snapshot(w)} :
          /\ balanceCache' = SettledWrite(balanceCache, FetchKey, data, now)
          /\ fetch' = [fetch EXCEPT !.promises[j].state = "late",
                                    !.written = [by |-> j, data |-> data]]
    /\ UNCHANGED << now, analysisCache, evmPlugin, EVM_PRIVATE_KEY, calls, last, computed,
                    tokenHoldings, tokenAnalysis, cache, ttl, sets, op, retry, inflight,
                    generator, message >>

NextTimeout ==
    \/ FetchCall
    \/ FetchRetry
    \/ SettlesInTime
    \/ TimeoutWins
    \/ \E j \in DOMAIN fetch.promises : SettlesLate(j)
    \/ Tick

SpecTimeout == InitTimeout /\ [][NextTimeout]_vars

(***************************************************************************)
(* Properties.                                                             *)
(* In what follows a chain "failed" in the last call when it was queried   *)
(* and was not up on any attempt, and "answered" when it was queried and   *)
(* was up on every attempt.                                                *)
(***************************************************************************)

\* C1: a second analyze call for the same address and mode, made through the
\* same entry point within the analysis TTL of an earlier call that computed
\* the analysis, returns that analysis again and neither initialises the
\* wallet provider nor queries a chain.
C1_SecondCallServedFromCache ==
    (/\ last.entry # "none"
     /\ last.prev.exists
     /\ last.prev.entry = last.entry
     /\ last.t0 - last.prev.t <= AnalysisTTL)
    => /\ last.status = "ok"
       /\ last.analysis = last.prev.analysis
       /\ last.queried = {}
       /\ ~last.inited

\* the case of C1 through the action handler: a second call for a key within
\* the TTL of a first one
C1_SecondHandlerCall ==
    /\ last.entry = "handler"
    /\ last.prev.exists
    /\ last.prev.entry = "handler"
    /\ last.t0 - last.prev.t <= AnalysisTTL
    /\ last.status = "ok"

\* C2: a returned analysis of a testnet run holds only testnet chains and
\* testnet-flagged tokens, and a returned analysis of a mainnet run holds no
\* testnet chain and no testnet-flagged token.
C2_TestnetIsolation ==
    (last.entry # "none" /\ last.status = "ok")
    => /\ \A i \in DOMAIN last.analysis.nativeBalances :
              isTestnetChain(last.analysis.nativeBalances[i].chainName) = last.testnetOnly
       /\ \A i \in DOMAIN last.analysis.tokenHoldings :
              last.analysis.tokenHoldings[i].isTestnet = last.testnetOnly

\* the case of C2: a mainnet run that queried a testnet chain on which the
\* address holds something
C2_MainnetRunOverFundedTestnet ==
    /\ last.entry # "none"
    /\ last.status = "ok"
    /\ ~last.testnetOnly
    /\ \E a \in DOMAIN last.w : a[1] \in last.queried /\ isTestnetChain(a[1])

\* C3: when exactly one queried chain failed and the others answered, the call
\* returns, every native balance and holding it reports is the true balance on
\* a chain that answered, every answering chain with a native balance is
\* reported, and the failed chain has no entry.
C3_OneChainFails ==
    LET failed == {c \in last.queried : \A k \in 1..MaxRetries : last.sts[k][c] # "up"}
        answered == {c \in last.queried : \A k \in 1..MaxRetries : last.sts[k][c] = "up"}
    IN  (/\ last.entry # "none"
         /\ Cardinality(failed) = 1
         /\ answered # {}
         /\ failed \cup answered = last.queried)
        => /\ last.status = "ok"
           /\ \A i \in DOMAIN last.analysis.nativeBalances :
                 LET e == last.analysis.nativeBalances[i]
                 IN  e.chainName \in answered
                     /\ e.balance = Bal(last.w, e.chainName, "native")
           /\ \A i \in DOMAIN last.analysis.tokenHoldings :
                 LET h == last.analysis.tokenHoldings[i]
                 IN  h.chainName \in answered
                     /\ h.balance = Bal(last.w, h.chainName, h.symbol)
           /\ \A c \in answered :
                 Bal(last.w, c, "native") > 0
                 => \E i \in DOMAIN last.analysis.nativeBalances :
                       last.analysis.nativeBalances[i].chainName = c

\* the case of C3: one queried chain was down on every attempt, the others
\* answered, and the call returned
C3_OneChainDown ==
    /\ last.entry # "none"
    /\ last.status = "ok"
    /\ Cardinality({c \in last.queried : \A k \in 1..MaxRetries : last.sts[k][c] = "down"}) = 1
    /\ Cardinality({c \in last.queried : \A k \in 1..MaxRetries : last.sts[k][c] = "up"})
          = Cardinality(last.queried) - 1
    /\ Cardinality(last.queried) > 1

\* C4: when every queried chain failed, the call ends in an error and the
\* analysis cache holds no entry for its key.
C4_AllChainsFail ==
    (/\ last.entry # "none"
     /\ last.queried # {}
     /\ \A c \in last.queried : \A k \in 1..MaxRetries : last.sts[k][c] # "up")
    => /\ last.status = "error"
       /\ CacheKey(last.address, last.testnetOnly) \notin DOMAIN analysisCache

\* the case of C4: every queried chain was down on every attempt
C4_EveryChainDown ==
    /\ last.entry # "none"
    /\ last.queried # {}
    /\ \A c \in last.queried : \A k \in 1..MaxRetries : last.sts[k][c] = "down"

\* C5: a call either returns an analysis or raises an error.  It raises when
\* the EVM plugin is unavailable, when the configuration is invalid, when the
\* wallet provider cannot be initialised and when the balance fetch fails; an
\* analysis it returns without a cache hit was computed from balances fetched
\* from at least one chain that answered.
C5_CompleteOrRaise ==
    last.entry # "none"
    => /\ \/ last.status = "error" /\ last.analysis = NoAnalysis
          \/ last.status = "ok" /\ last.analysis # NoAnalysis
       /\ (~evmPlugin \/ ~validateEvmConfigurationStrict(EVM_PRIVATE_KEY).ok)
             => last.status = "error"
       /\ (last.inited /\ last.initFails >= MaxRetries) => last.status = "error"
       /\ (last.status = "ok" /\ ~last.cacheHit)
             => \E c \in last.queried : last.sts[last.attempts][c] = "up"

\* the case of C5: the balance fetch met no chain that answered, and the call
\* returned an analysis
C5_ReturnedWithoutAnAnswer ==
    /\ last.entry # "none"
    /\ last.status = "ok"
    /\ ~last.cacheHit
    /\ \A c \in last.queried : last.sts[last.attempts][c] # "up"

\* C6: every recommendation of a returned analysis has an amount that is at
\* least the floor of the mode (0.05 on mainnet, 0.005 on testnet) and at most
\* the balance of a held asset of its token and network kind.
C6_AmountWithinBalanceAndFloor ==
    (last.entry # "none" /\ last.status = "ok")
    => \A i \in DOMAIN last.analysis.stakingRecommendations :
          LET r == last.analysis.stakingRecommendations[i]
              floor == IF last.testnetOnly THEN TICK \div 200 ELSE TICK \div 20
          IN  /\ RatLe(Whole(floor), r.recommendedAmount)
              /\ \/ /\ r.token = "ETH"
                    /\ \E j \in DOMAIN last.analysis.nativeBalances :
                          LET e == last.analysis.nativeBalances[j]
                          IN  /\ isTestnetChain(e.chainName) = r.isTestnet
                              /\ RatLe(r.recommendedAmount, Whole(e.balance))
                 \/ /\ r.token # "ETH"
                    /\ \E j \in DOMAIN last.analysis.tokenHoldings :
                          LET h == last.analysis.tokenHoldings[j]
                          IN  /\ h.symbol = r.token
                              /\ h.isTestnet = r.isTestnet
                              /\ RatLe(r.recommendedAmount, Whole(h.balance))

\* the case of C6: an analysis with a native and a token recommendation
C6_NativeAndTokenRecommended ==
    /\ last.entry # "none"
    /\ last.status = "ok"
    /\ \E i, j \in DOMAIN last.analysis.stakingRecommendations :
          /\ last.analysis.stakingRecommendations[i].token = "ETH"
          /\ last.analysis.stakingRecommendations[j].token # "ETH"

C8_TwoEthOnMainnet ==
    (/\ last.entry # "none"
     /\ last.status = "ok"
     /\ ~last.testnetOnly
     /\ last.w = Deposit("mainnet", "native", 2 * TICK)
     /\ "mainnet" \in last.queried
     /\ last.sts[last.attempts]["mainnet"] = "up")
    => /\ last.analysis.riskProfile.riskScore = 60
       /\ last.analysis.riskProfile.riskTolerance = "AGGRESSIVE"
       /\ last.analysis.stakingStrategy.recommendedAllocation = Whole(80)
       /\ Len(last.analysis.stakingRecommendations) = 1
       /\ LET r == last.analysis.stakingRecommendations[1]
          IN  /\ r.token = "ETH"
              /\ r.recommendedAmount
                    = RatMul(Whole(2 * TICK),
                             RatMul(last.analysis.stakingStrategy.recommendedAllocation,
                                    Rat(1, 100)))
              /\ r.priority = "MEDIUM"
              /\ r.options = ETH_STAKING_OPTIONS
              /\ \E k \in DOMAIN r.options :
                    r.options[k].protocol = "EigenLayer" /\ r.options[k].riskLevel = "HIGH"

\* the case of C8: a mainnet run that got mainnet's answer for an address
\* holding 2.0 ETH there and nothing else
C8_TwoEthAnalysed ==
    /\ last.entry # "none"
    /\ last.status = "ok"
    /\ ~last.testnetOnly
    /\ last.w = Deposit("mainnet", "native", 2 * TICK)
    /\ "mainnet" \in last.queried
    /\ last.sts[last.attempts]["mainnet"] = "up"
    /\ Len(last.analysis.stakingRecommendations) = 1

\* C8 as stated: in that case the tier is MODERATE and there is exactly one
\* recommendation: for ETH, of amount 2.0 x allocation / 100, of priority
\* MEDIUM, with only LOW and MEDIUM risk options.
C8_AsStated ==
    (/\ last.entry # "none"
     /\ last.status = "ok"
     /\ ~last.testnetOnly
     /\ last.w = Deposit("mainnet", "native", 2 * TICK)
     /\ "mainnet" \in last.queried
     /\ last.sts[last.attempts]["mainnet"] = "up")
    => /\ last.analysis.riskProfile.riskTolerance = "MODERATE"
       /\ Len(last.analysis.stakingRecommendations) = 1
       /\ LET r == last.analysis.stakingRecommendations[1]
          IN  /\ r.token = "ETH"
              /\ r.recommendedAmount
                    = RatMul(Whole(2 * TICK),
                             RatMul(last.analysis.stakingStrategy.recommendedAllocation,
                                    Rat(1, 100)))
              /\ r.priority = "MEDIUM"
              /\ \A k \in DOMAIN r.options : r.options[k].riskLevel \in {"LOW", "MEDIUM"}

\* C9: a returned analysis has no more native (ETH) recommendations than
\* native balances above the threshold of their network kind (0.1 on mainnet
\* chains, 0.01 on testnet chains), and each one is for at most such a
\* balance; a balance at or below the threshold yields none.
C9_NoNativeRecommendationAtOrBelowThreshold ==
    (last.entry # "none" /\ last.status = "ok")
    => LET nb == last.analysis.nativeBalances
           recs == last.analysis.stakingRecommendations
           above == {j \in DOMAIN nb :
                        nb[j].balance > (IF isTestnetChain(nb[j].chainName)
                                         THEN TICK \div 100 ELSE TICK \div 10)}
           eth == {i \in DOMAIN recs : recs[i].token = "ETH"}
       IN  /\ Cardinality(eth) <= Cardinality(above)
           /\ \A i \in eth : \E j \in above :
                 /\ isTestnetChain(nb[j].chainName) = recs[i].isTestnet
                 /\ RatLe(recs[i].recommendedAmount, Whole(nb[j].balance))

\* the case of C9: a mainnet run that found exactly 0.1 ETH on mainnet and a
\* larger native balance on another chain, and made a native recommendation
\* (by C9 only one, for the larger balance)
C9_BalanceAtThreshold ==
    /\ last.entry # "none"
    /\ last.status = "ok"
    /\ ~last.testnetOnly
    /\ \E j \in DOMAIN last.analysis.nativeBalances :
          /\ last.analysis.nativeBalances[j].chainName = "mainnet"
          /\ last.analysis.nativeBalances[j].balance = TICK \div 10
    /\ last.analysis.totalBalance > TICK
    /\ \E i \in DOMAIN last.analysis.stakingRecommendations :
          last.analysis.stakingRecommendations[i].token = "ETH"

\* C10: for a non-empty list of n holdings the concentration risk is at least
\* 1/n and at most 1, and it is 1 exactly when n = 1.
C10_ConcentrationBounds ==
    (calls = 1 /\ Len(tokenHoldings) >= 1)
    => LET c == tokenAnalysis.concentrationRisk
           n == Len(tokenHoldings)
       IN  /\ RatLe(Rat(1, n), c)
           /\ RatLe(c, Whole(1))
           /\ (RatLe(Whole(1), c) <=> n = 1)

\* the case of C10: several holdings of unequal balances, the risk strictly
\* between the bounds
C10_UnequalHoldings ==
    /\ calls = 1
    /\ Len(tokenHoldings) > 1
    /\ RatLt(Rat(1, Len(tokenHoldings)), tokenAnalysis.concentrationRisk)
    /\ RatLt(tokenAnalysis.concentrationRisk, Whole(1))

\* C11: a get returns the data of the latest set of its key exactly when that
\* set exists and is no older than the ttl, and otherwise returns nothing and
\* leaves no entry for the key; an entry keeps the time of its latest set
\* whatever is read, and an entry disappears only through a get of its key
\* that found it older than the ttl.
C11_GetWithinTTL ==
    /\ op.kind = "get" =>
          /\ op.hit <=> (/\ op.key \in DOMAIN sets
                         /\ op.t - sets[op.key].timestamp <= ttl)
          /\ op.hit => op.data = sets[op.key].data
          /\ ~op.hit => op.key \notin DOMAIN cache
    /\ \A k \in DOMAIN cache : cache[k] = sets[k]
    /\ \A k \in DOMAIN op.before \ DOMAIN cache :
          /\ op.kind = "get"
          /\ op.key = k
          /\ op.t - op.before[k].timestamp > ttl

\* a get of an entry whose age is exactly the ttl, after a get of an older
\* entry evicted that one
C11_ReadAtTTLAfterEviction ==
    /\ op.kind = "get"
    /\ op.hit
    /\ op.t - sets[op.key].timestamp = ttl
    /\ \E k \in DOMAIN sets : k \notin DOMAIN cache

\* position of a chain in the registry, and of a holding in its chain's catalog
ChainPos(chainName) == CHOOSE i \in DOMAIN ChainOrder : ChainOrder[i] = chainName
CatalogPos(h) ==
    LET tokens == IF isTestnetChain(h.chainName) THEN TESTNET_TOKEN_DATABASE(h.chainName)
                  ELSE TOKEN_DATABASE(h.chainName)
    IN  CHOOSE i \in DOMAIN tokens : tokens[i].symbol = h.symbol

\* C12: in a computed analysis the per-chain native balances follow the
\* registry order of their chains, and the flattened holdings follow the
\* registry order of their chains and, within a chain, the catalog order of
\* their tokens, however the queries completed.
C12_RegistryOrder ==
    (last.status = "ok" /\ last.analysis # NoAnalysis /\ ~last.cacheHit) =>
        LET nb == last.analysis.nativeBalances
            th == last.analysis.tokenHoldings
        IN  /\ \A i, j \in DOMAIN nb :
                  i < j => ChainPos(nb[i].chainName) < ChainPos(nb[j].chainName)
            /\ \A i, j \in DOMAIN th :
                  i < j => \/ ChainPos(th[i].chainName) < ChainPos(th[j].chainName)
                           \/ /\ th[i].chainName = th[j].chainName
                              /\ CatalogPos(th[i]) < CatalogPos(th[j])

\* an analysis computed over two funded chains whose queries completed in
\* reverse order
C12_TwoChainsCompletedInReverse ==
    /\ last.status = "ok"
    /\ last.analysis # NoAnalysis
    /\ ~last.cacheHit
    /\ last.rev
    /\ ~last.testnetOnly
    /\ Len(last.analysis.nativeBalances) = 2
    /\ Bal(last.w, "mainnet", "native") > 0
    /\ Bal(last.w, "base", "native") > 0

C14_MalformedAddressRejected ==
    (/\ last.entry # "none"
     /\ ~(message.prefix /\ message.hexrun = 40))
    => /\ last.status = "error"
       /\ last.address = ""
       /\ ~last.inited
       /\ last.queried = {}

\* a message holding 0x and 41 hexadecimal digits, given to get
C14_LongerHexString ==
    /\ last.entry = "provider"
    /\ message.prefix
    /\ message.hexrun = 41

\* C15: a call for an address and mode leaves the entries of every other
\* (address, mode) pair in the analysis cache and in the balance cache as
\* they were, neither adding, replacing nor removing one; and an analysis
\* served from the cache is the entry the cache held for that same address
\* and mode.
C15_OtherKeysUntouched ==
    /\ [](last.cacheHit => last.analysis.address = last.address)
    /\ [][(calls' = calls + 1 /\ last'.cacheHit) =>
            /\ << last'.address, IF last'.testnetOnly THEN "testnet" ELSE "all" >>
                  \in DOMAIN analysisCache
            /\ last'.analysis =
                  analysisCache[<< last'.address,
                                   IF last'.testnetOnly THEN "testnet" ELSE "all" >>].data]_vars
    /\ [][calls' = calls + 1 =>
            \A address \in Addresses, mode \in {"testnet", "all"} :
               << address, mode >> #
                   << last'.address, IF last'.testnetOnly THEN "testnet" ELSE "all" >>
               => /\ << address, mode >> \in DOMAIN analysisCache
                        <=> << address, mode >> \in DOMAIN analysisCache'
                  /\ << address, mode >> \in DOMAIN analysisCache
                        => analysisCache'[<< address, mode >>]
                              = analysisCache[<< address, mode >>]
                  /\ << address, mode >> \in DOMAIN balanceCache
                        <=> << address, mode >> \in DOMAIN balanceCache'
                  /\ << address, mode >> \in DOMAIN balanceCache
                        => balanceCache'[<< address, mode >>]
                              = balanceCache[<< address, mode >>]]_vars

\* a mainnet analysis computed on the registered instance while that
\* instance holds the testnet analysis of the same address
C15_MainnetCallBesideTestnetEntry ==
    /\ last.entry = "provider"
    /\ last.address = Alice
    /\ ~last.testnetOnly
    /\ last.status = "ok"
    /\ ~last.cacheHit
    /\ << Alice, "testnet" >> \in DOMAIN analysisCache
    /\ << Alice, "testnet" >> \in DOMAIN balanceCache
    /\ << Alice, "all" >> \in DOMAIN analysisCache

\* C16: every chain listed in the native balances of a computed analysis,
\* of a mainnet run or of a testnet run, has a positive native balance or
\* at least one holding above the dust threshold of its chain.
C16_OnlyFundedChainsListed ==
    (last.status = "ok" /\ last.analysis # NoAnalysis /\ ~last.cacheHit) =>
        LET nb == last.analysis.nativeBalances
            th == last.analysis.tokenHoldings
        IN  \A i \in DOMAIN nb :
               \/ nb[i].balance > 0
               \/ \E j \in DOMAIN th :
                     /\ th[j].chainName = nb[i].chainName
                     /\ th[j].balance > DustThreshold(isTestnetChain(th[j].chainName))

\* a testnet run over an address that holds nothing, every chain answering
C16_TestnetRunOverEmptyWallet ==
    /\ last.status = "ok"
    /\ last.analysis # NoAnalysis
    /\ ~last.cacheHit
    /\ last.testnetOnly
    /\ last.w = EmptyWorld
    /\ last.sts = Steady(AllUp)

\* C17: when some queried chain fails or hangs while other queried chains
\* answer on every attempt, the call returns after a single aggregation
\* attempt (every attempt queries every chain anew, so the answering chains
\* are queried once) and reports the native balance of every answering
\* chain that has one.
C17_SiblingsUnaffected ==
    LET troubled == {c \in last.queried : last.sts[1][c] # "up"}
        siblings == {c \in last.queried : \A k \in 1..MaxRetries : last.sts[k][c] = "up"}
    IN  (last.entry # "none" /\ troubled # {} /\ siblings # {})
        => /\ last.status = "ok"
           /\ last.attempts = 1
           /\ \A c \in siblings :
                 Bal(last.w, c, "native") > 0
                 => \E i \in DOMAIN last.analysis.nativeBalances :
                       /\ last.analysis.nativeBalances[i].chainName = c
                       /\ last.analysis.nativeBalances[i].balance = Bal(last.w, c, "native")

\* one queried chain hung during the first attempt only, beside a funded
\* chain that answered
C17_OneChainHangsOnce ==
    /\ last.entry # "none"
    /\ last.attempts = 2
    /\ last.status = "ok"
    /\ \E c \in last.queried : last.sts[1][c] = "hang"
    /\ \E c \in last.queried :
          /\ \A k \in 1..MaxRetries : last.sts[k][c] = "up"
          /\ Bal(last.w, c, "native") > 0

\* C18: the balance-fetch loop ends, returned or thrown.  It makes at most
\* three attempts, none longer than the timeout; an attempt follows only
\* failed attempts, so the first success is returned at once; after each
\* failed attempt but the third it waits, each delay twice the one before;
\* and it has thrown exactly when three attempts have failed.
C18_RetryLoopBounded ==
    /\ [](/\ retry.attempt <= MaxRetries
          /\ Len(retry.outcomes) <= MaxRetries
          /\ \A i \in DOMAIN retry.durations : retry.durations[i] <= FetchTimeout
          /\ \A i \in DOMAIN retry.outcomes :
                i < Len(retry.outcomes) => retry.outcomes[i] # "ok"
          /\ retry.pc = "returned" <=>
                (retry.outcomes # << >> /\ retry.outcomes[Len(retry.outcomes)] = "ok")
          /\ Len(retry.delays) =
                Cardinality({i \in DOMAIN retry.outcomes :
                                retry.outcomes[i] # "ok" /\ i < MaxRetries})
          /\ \A i \in DOMAIN retry.delays :
                i > 1 => retry.delays[i] = 2 * retry.delays[i - 1]
          /\ retry.pc = "thrown" <=>
                (/\ Len(retry.outcomes) = MaxRetries
                 /\ \A i \in DOMAIN retry.outcomes : retry.outcomes[i] # "ok"))
    /\ <>(retry.pc \in {"returned", "thrown"})

\* the third attempt has failed, after a timeout and two delays
C18_ThirdAttemptFailed ==
    /\ retry.pc = "thrown"
    /\ retry.attempt = MaxRetries
    /\ Len(retry.delays) = 2
    /\ \E i \in DOMAIN retry.outcomes : retry.outcomes[i] = "timeout"

\* C19: when two calls for one address and mode have both missed the
\* analysis cache and both returned, both hold a complete analysis, at
\* least one of them fetched and the other fetched too or used the snapshot
\* the first had stored, and the analysis cache holds for the key exactly
\* the analysis of the call that returned last, stamped with its return.
C19_LastWriterWins ==
    LET a == inflight.call[1]
        b == inflight.call[2]
        key == << Alice, IF inflight.testnetOnly THEN "testnet" ELSE "all" >>
        final == inflight.call[inflight.order[Len(inflight.order)]]
    IN  (/\ a.pc = "done" /\ b.pc = "done"
         /\ a.status = "ok" /\ b.status = "ok"
         /\ ~a.cacheHit /\ ~b.cacheHit)
        => /\ a.analysis # NoAnalysis /\ b.analysis # NoAnalysis
           /\ a.analysis = BuildAnalysis(Alice, a.data, inflight.testnetOnly)
           /\ b.analysis = BuildAnalysis(Alice, b.data, inflight.testnetOnly)
           /\ a.fetched \/ b.fetched
           /\ \A c \in {a, b} : c.fetched \/ (c.balanceHit /\ c.data \in {a.data, b.data})
           /\ DOMAIN analysisCache = {key}
           /\ analysisCache[key] = [data |-> final.analysis, timestamp |-> final.t]

\* both calls missed the analysis cache, fetched different balances, and the
\* one that began its queries first returned last
C19_BothFetchedFirstReturnsLast ==
    /\ inflight.call[1].pc = "done"
    /\ inflight.call[2].pc = "done"
    /\ inflight.call[1].fetched
    /\ inflight.call[2].fetched
    /\ inflight.call[1].data # inflight.call[2].data
    /\ inflight.order = << 2, 1 >>

\* C19 as stated: both calls fetch.
C19_AsStated ==
    (/\ inflight.call[1].pc = "done" /\ inflight.call[2].pc = "done"
     /\ inflight.call[1].status = "ok" /\ inflight.call[2].status = "ok"
     /\ ~inflight.call[1].cacheHit /\ ~inflight.call[2].cacheHit)
    => inflight.call[1].fetched /\ inflight.call[2].fetched

\* C20: the recommendations of a computed analysis are in descending order
\* of priority, and those of one priority are in the order in which the
\* generator met them: the native ones in the order of the analysis' native
\* balances, then the token ones in the order of its holdings.
C20_PriorityThenDiscoveryOrder ==
    (last.status = "ok" /\ last.analysis # NoAnalysis /\ ~last.cacheHit) =>
        LET recs == last.analysis.stakingRecommendations
            nb == last.analysis.nativeBalances
            th == SelectSeq(last.analysis.tokenHoldings,
                            LAMBDA t : IsStakeableToken(t, last.testnetOnly))
            discovered ==
                Flatten([i \in DOMAIN nb |->
                            NativeRecommendation(nb[i], last.analysis.stakingStrategy,
                                                 last.testnetOnly)])
                \o Flatten([i \in DOMAIN th |->
                               TokenRecommendation(th[i], last.analysis.stakingStrategy)])
        IN  /\ \A i, j \in DOMAIN recs :
                  i < j => priorityOrder(recs[i].priority) >= priorityOrder(recs[j].priority)
            /\ \A p \in {"HIGH", "MEDIUM", "LOW"} :
                  SelectSeq(recs, LAMBDA r : r.priority = p)
                     = SelectSeq(discovered, LAMBDA r : r.priority = p)

\* a native and a token recommendation of one priority
C20_NativeAndTokenOfOnePriority ==
    /\ last.status = "ok"
    /\ last.analysis # NoAnalysis
    /\ Len(last.analysis.stakingRecommendations) = 2
    /\ last.analysis.stakingRecommendations[1].token = "ETH"
    /\ last.analysis.stakingRecommendations[2].token # "ETH"
    /\ last.analysis.stakingRecommendations[1].priority
          = last.analysis.stakingRecommendations[2].priority

\* C21: every recommendation has at least one option, all its options are
\* LOW-risk when the strategy's tier is CONSERVATIVE and none is HIGH-risk
\* when it is MODERATE, and a holding none of whose options is compatible
\* with the tier has no recommendation.
C21_OptionsRiskCompatible ==
    generator.done =>
        LET tier == generator.strategy.riskTolerance
            recs == generator.recommendations
        IN  /\ \A i \in DOMAIN recs :
                  /\ Len(recs[i].options) > 0
                  /\ \A k \in DOMAIN recs[i].options :
                        /\ tier = "CONSERVATIVE" => recs[i].options[k].riskLevel = "LOW"
                        /\ tier = "MODERATE" => recs[i].options[k].riskLevel # "HIGH"
            /\ \A j \in DOMAIN generator.tokenHoldings :
                  LET h == generator.tokenHoldings[j]
                  IN  (\A k \in DOMAIN h.stakingOptions :
                          \/ tier = "CONSERVATIVE" /\ h.stakingOptions[k].riskLevel # "LOW"
                          \/ tier = "MODERATE" /\ h.stakingOptions[k].riskLevel = "HIGH")
                      => \A i \in DOMAIN recs : recs[i].token # h.symbol

\* a CONSERVATIVE testnet run that recommends the native balance and meets
\* a sufficient stakeable holding whose only option is MEDIUM-risk
C21_ConservativeDropsMediumOnlyToken ==
    /\ generator.done
    /\ generator.strategy.riskTolerance = "CONSERVATIVE"
    /\ generator.testnetOnly
    /\ generator.recommendations # << >>
    /\ generator.tokenHoldings = << Holding("sepolia", "UNI", 2 * TICK) >>
    /\ Holding("sepolia", "UNI", 2 * TICK).stakingOptions # << >>
    /\ \A i \in DOMAIN generator.recommendations : generator.recommendations[i].token = "ETH"

\* C22: the profile of a score in 0..100 has tolerance CONSERVATIVE, MODERATE,
\* AGGRESSIVE or DEGENERATE, a largest single position of 0.1, 0.2, 0.4 or
\* 0.6 of the native balance and a lock tolerance of 7, 30, 90 or 365 days
\* as the score is below 25, below 50, below 75 or not; and staking risk
\* tolerance LOW below 30, HIGH above 70, MEDIUM between.
C22_ProfileStepsWithScore ==
    generator.done =>
        LET score == generator.riskScore
            profile == generator.riskProfile
            step == IF score < 25 THEN 1 ELSE IF score < 50 THEN 2
                    ELSE IF score < 75 THEN 3 ELSE 4
            total == Sum([i \in DOMAIN generator.nativeBalances |->
                             generator.nativeBalances[i].balance])
        IN  /\ score \in 0..100
            /\ profile.riskScore = score
            /\ profile.riskTolerance =
                  << "CONSERVATIVE", "MODERATE", "AGGRESSIVE", "DEGENERATE" >>[step]
            /\ profile.maxSinglePosition = Rat(total * << 1, 2, 4, 6 >>[step], 10)
            /\ profile.lockPeriodTolerance = << 7, 30, 90, 365 >>[step]
            /\ profile.stakingRiskTolerance =
                  IF score < 30 THEN "LOW" ELSE IF score > 70 THEN "HIGH" ELSE "MEDIUM"

\* a profile of score 25 over a native balance
C22_ScoreOnThreshold ==
    /\ generator.done
    /\ generator.riskScore = 25
    /\ generator.riskProfile.riskTolerance = "MODERATE"
    /\ generator.nativeBalances # << >>

\* C23: the strategy of a computed testnet analysis prefers no protocol,
\* has a horizon of 90 days and a diversification goal of 1, and allocates
\* 40% when the total native balance is above 0.01.
C23_TestnetStrategy ==
    (last.status = "ok" /\ last.analysis # NoAnalysis /\ last.testnetOnly) =>
        LET strategy == last.analysis.stakingStrategy
        IN  /\ strategy.preferredProtocols = << >>
            /\ strategy.stakingHorizon = 90
            /\ strategy.diversificationGoal = 1
            /\ last.analysis.totalBalance > TICK \div 100
                  => strategy.recommendedAllocation = Whole(40)

\* a computed testnet analysis whose total native balance is 0.01 or less
C23_TestnetRunWithoutMeaningfulBalance ==
    /\ last.status = "ok"
    /\ last.analysis # NoAnalysis
    /\ last.testnetOnly
    /\ last.analysis.totalBalance <= TICK \div 100

\* C24: on a mainnet run the recommended allocation lies in [0,100], is
\* below the tier's base allocation (the allocation of the same profile at a
\* total balance of 1 unit) when the total balance is below 1 unit, and above
\* it when the total balance is above 50 units.
C24_AllocationAdjustedBySize ==
    (generator.done /\ ~generator.testnetOnly) =>
        LET total == Sum([i \in DOMAIN generator.nativeBalances |->
                              generator.nativeBalances[i].balance])
            liquidityNeeds == assessLiquidityProfile(generator.tokenHoldings, total)
            tierBase == generateStakingStrategy(generator.riskProfile, liquidityNeeds,
                                                TICK, FALSE).recommendedAllocation
            allocation == generator.strategy.recommendedAllocation
        IN  /\ RatLe(Whole(0), allocation) /\ RatLe(allocation, Whole(100))
            /\ total < TICK => RatLt(allocation, tierBase)
            /\ total > 50 * TICK => RatLt(tierBase, allocation)

\* a mainnet strategy was generated for a total balance below 1 unit
C24_MainnetRunBelowOneUnit ==
    /\ generator.done
    /\ ~generator.testnetOnly
    /\ generator.nativeBalances # << >>
    /\ Sum([i \in DOMAIN generator.nativeBalances |->
                generator.nativeBalances[i].balance]) < TICK

\* C25: the expected annual return of every recommendation is its
\* recommended amount times the highest expected APR among its options,
\* divided by 100 (to the sixth decimal the amounts are printed with).
C25_ReturnUsesBestApr ==
    generator.done =>
        \A i \in DOMAIN generator.recommendations :
            LET rec == generator.recommendations[i]
                aprs == {rec.options[k].expectedApr : k \in DOMAIN rec.options}
                best == CHOOSE a \in aprs : \A b \in aprs : b <= a
                exact == RatMul(rec.recommendedAmount, Rat(best, 1000))
            IN  /\ RatLe(rec.expectedReturn, RatAdd(exact, Rat(1, 10)))
                /\ RatLe(exact, RatAdd(rec.expectedReturn, Rat(1, 10)))

\* a recommendation whose first option does not carry the highest APR
C25_FirstOptionNotBest ==
    /\ generator.done
    /\ \E i \in DOMAIN generator.recommendations :
          \E k \in DOMAIN generator.recommendations[i].options :
             generator.recommendations[i].options[k].expectedApr
                > generator.recommendations[i].options[1].expectedApr

\* C26: the personalized score of every scored recommendation is
\* 50 + 20*a + 15*h + 15*l + r clamped to [0,100], with a = 1 when the tier of
\* the recommendation's leading option equals the user's staking risk tier,
\* 0.7 when the two are adjacent and 0.3 otherwise, h and l the holding and
\* lock-period factors in [0,1], r the return term in [0,10], and nothing else.
C26_ScoreIsSumOfFourTerms ==
    generator.scored =>
        \A i \in DOMAIN generator.enhanced :
            LET rec == generator.enhanced[i].rec
                rank == [t \in {"LOW", "MEDIUM", "HIGH"} |->
                            IF t = "LOW" THEN 1 ELSE IF t = "MEDIUM" THEN 2 ELSE 3]
                gap == rank[rec.options[1].riskLevel]
                          - rank[generator.riskProfile.stakingRiskTolerance]
                a == IF gap = 0 THEN Whole(1)
                     ELSE IF gap \in {-1, 1} THEN Rat(7, 10) ELSE Rat(3, 10)
                h == getAssetPreferenceMatch(rec, generator.tokenHoldings)
                l == getLiquidityMatch(rec, generator.riskProfile)
                r == RatMin(RatMul(RatMul(rec.expectedReturn, Rat(1, TICK)), Whole(2)),
                            Whole(10))
                sum == RatAdd(RatAdd(RatAdd(RatAdd(Whole(50), RatMul(a, Whole(20))),
                           RatMul(h, Whole(15))), RatMul(l, Whole(15))), r)
            IN  /\ RatLe(Whole(0), h) /\ RatLe(h, Whole(1))
                /\ RatLe(Whole(0), l) /\ RatLe(l, Whole(1))
                /\ RatLe(Whole(0), r) /\ RatLe(r, Whole(10))
                /\ generator.enhanced[i].personalizedScore = RatMin(sum, Whole(100))

\* a testnet recommendation was scored below the upper clamp
C26_TestnetRecommendationScored ==
    /\ generator.scored
    /\ \E i \in DOMAIN generator.enhanced :
          /\ generator.enhanced[i].rec.isTestnet
          /\ RatLt(generator.enhanced[i].personalizedScore, Whole(100))

\* C27: the risk score of every computed analysis is at least 25, so its
\* profile is never CONSERVATIVE, never has the 0.1 position ratio or the
\* 7-day lock tolerance, and its strategy and option filter never take the
\* CONSERVATIVE branch.
C27_NeverConservative ==
    (last.status = "ok" /\ last.analysis # NoAnalysis) =>
        LET profile == last.analysis.riskProfile
            strategy == last.analysis.stakingStrategy
        IN  /\ profile.riskScore >= 25
            /\ profile.riskTolerance # "CONSERVATIVE"
            /\ getMaxPositionRatio(profile.riskScore) # Rat(1, 10)
            /\ profile.maxSinglePosition =
                  RatMul(Whole(last.analysis.totalBalance),
                         getMaxPositionRatio(profile.riskScore))
            /\ profile.lockPeriodTolerance # 7
            /\ strategy.riskTolerance # "CONSERVATIVE"
            /\ strategy.stakingHorizon # 180
            /\ strategy.preferredProtocols # << "Lido", "Coinbase Wrapped Staked ETH" >>

\* an analysis of a wallet below 1 unit with no tokens, or of a wallet whose
\* holdings are mostly stablecoins: the cases that lower the score
C27_ScoreLowered ==
    /\ last.status = "ok"
    /\ last.analysis # NoAnalysis
    /\ last.analysis.riskProfile.riskScore < 50

\* C28: an aggregation abandoned by the timeout is never cancelled: it is
\* pending until it settles, and when it settles it stores its snapshot in
\* the balance cache whatever entry is there; an attempt or call that finds
\* an entry within the TTL returns that entry, whoever wrote it.
C28_AbandonedAttemptStillWrites ==
    /\ [][\A j \in DOMAIN fetch.promises :
              fetch.promises[j].state = "abandoned" =>
                 /\ j \in DOMAIN fetch'.promises
                 /\ fetch'.promises[j].state \in {"abandoned", "late"}
                 /\ fetch'.promises[j].state = "late" =>
                       /\ fetch'.written.by = j
                       /\ FetchKey \in DOMAIN balanceCache'
                       /\ balanceCache'[FetchKey] =
                             [data |-> fetch'.written.data, timestamp |-> now]]_vars
    /\ [][(/\ << fetch'.call, fetch'.attempt >> # << fetch.call, fetch.attempt >>
            /\ fetch'.pc = "returned"
            /\ fetch'.served = "cache") =>
              /\ FetchKey \in DOMAIN balanceCache
              /\ now - balanceCache[FetchKey].timestamp <= BalanceTTL
              /\ fetch'.data = balanceCache[FetchKey].data]_vars

\* a retry attempt was served, from the cache, the snapshot its own call's
\* abandoned first attempt stored when it settled late
C28_RetryServedAbandonedResult ==
    /\ fetch.pc = "returned"
    /\ fetch.served = "cache"
    /\ fetch.attempt = 2
    /\ Len(fetch.promises) = 1
    /\ fetch.promises[1].state = "late"
    /\ fetch.written.by = 1
    /\ fetch.written.data = fetch.data

\* C29: a call of analyzeWallet that throws writes no entry: afterwards the
\* analysis cache of its analyzer has no entry under the call's key (an expired
\* one was removed by the lookup) and every other entry is as before, and the
\* cache never holds anything but a computed analysis of its key's address,
\* so the next call for the key runs the analysis again.
C29_FailureWritesNoEntry ==
    /\ [](\A k \in DOMAIN analysisCache :
             /\ analysisCache[k].data # NoAnalysis
             /\ analysisCache[k].data.address = k[1])
    /\ [][(calls' = calls + 1 /\ last'.status = "error") =>
              LET key == CacheKey(last'.address, last'.testnetOnly)
              IN  IF last'.entry = "provider"
                  THEN /\ DOMAIN analysisCache' = DOMAIN analysisCache \ {key}
                       /\ \A k \in DOMAIN analysisCache' :
                             analysisCache'[k] = analysisCache[k]
                       /\ key \in DOMAIN analysisCache =>
                             now - analysisCache[key].timestamp > AnalysisTTL
                  ELSE analysisCache' = analysisCache]_vars

\* C29 as stated: a call that throws leaves the analysis cache unchanged.
C29_AsStated ==
    [][(calls' = calls + 1 /\ last'.status = "error") => analysisCache' = analysisCache]_vars

\* a provider call threw for a key that had been analysed and cached before
C29_FailureAfterCachedSuccess ==
    /\ last.status = "error"
    /\ last.entry = "provider"
    /\ last.prev.exists
    /\ last.prev.entry = "provider"
    /\ CacheKey(last.address, last.testnetOnly) \notin DOMAIN analysisCache

\* C30: every recommendation of a run carries isTestnet equal to the run's
\* testnetOnly; a native one comes from a chain of the native balances whose
\* testnet flag equals testnetOnly, a token one from a holding whose isTestnet
\* flag equals testnetOnly, whatever chains and holdings the run was given.
C30_RecommendationsOfTheRunsNetwork ==
    generator.done =>
        \A i \in DOMAIN generator.recommendations :
            LET rec == generator.recommendations[i]
            IN  /\ rec.isTestnet = generator.testnetOnly
                /\ IF rec.token = "ETH"
                   THEN \E n \in DOMAIN generator.nativeBalances :
                           /\ isTestnetChain(generator.nativeBalances[n].chainName)
                                 = generator.testnetOnly
                           /\ << rec >> = NativeRecommendation(generator.nativeBalances[n],
                                               generator.strategy, generator.testnetOnly)
                   ELSE \E h \in DOMAIN generator.tokenHoldings :
                           /\ generator.tokenHoldings[h].isTestnet = generator.testnetOnly
                           /\ generator.tokenHoldings[h].symbol = rec.token
                           /\ << rec >> = TokenRecommendation(generator.tokenHoldings[h],
                                               generator.strategy)

\* a mainnet run over balances and holdings of both kinds of chain that
\* recommended the mainnet ones only
C30_MixedInputsMainnetRun ==
    /\ generator.done
    /\ ~generator.testnetOnly
    /\ \E n \in DOMAIN generator.nativeBalances :
          isTestnetChain(generator.nativeBalances[n].chainName)
    /\ \E h \in DOMAIN generator.tokenHoldings : generator.tokenHoldings[h].isTestnet
    /\ Len(generator.recommendations) = 2

====
